---- MODULE Spec2Model ----
(***************************************************************************)
(* State-machine model of gw.py (InteractiveGitWrapper): the multi-remote  *)
(* push flows, the sequential and the thread-pool dispatch, the summary,   *)
(* and the configuration / history state they touch.                       *)
(*                                                                         *)
(* Text is modelled as a sequence of one-character strings, so that the    *)
(* substring, prefix and suffix tests of the code are computed.  Remote    *)
(* names are only compared for equality and stay plain strings.            *)
(***************************************************************************)
EXTENDS Integers, Sequences, FiniteSets, TLC

VARIABLES
    config,         \* self.config
    config_file,    \* content of ~/.gitwrapper_config.json
    history,        \* self.history
    history_file,   \* content of ~/.gitwrapper_history.json
    git_remotes,    \* lines printed by `git remote`
    current_branch, \* text printed by `git branch --show-current`
    pc,             \* position of the interactive (main) thread
    branch,         \* branch of the push request
    remotes,        \* list of remotes handed to _push_to_remotes
    results,        \* what the push of each list entry did once started
    mode,           \* which of _push_sequential / _push_parallel was called
    seq,            \* locals of _push_sequential
    par,            \* locals of _push_parallel, with the executor's futures
    push_calls,     \* `git push` subprocesses started, in start order
    out,            \* arguments of each _print_push_summary call, in order
    added,          \* entries handed to add_to_history so far, in call order
    last_call,      \* the most recent call: what it wrote, printed, returned
    git_calls,      \* git commands other than pushes, in start order
    process         \* the gw process: git binary, argv, colors_enabled, exit

vars == <<config, config_file, history, history_file, git_remotes,
          current_branch, pc, branch, remotes, results, mode, seq, par,
          push_calls, out, added, last_call, git_calls, process>>

persistVars == <<config, config_file, history, history_file>>
gitVars == <<git_remotes, current_branch>>
requestVars == <<branch, remotes, results, mode>>
dispatchVars == <<seq, par, push_calls, out>>
auxVars == <<added, last_call, git_calls, process>>

\* ------------------------------------------------------------------ bounds

MaxRemotes == 3     \* remotes configured in the repository of the push flows
MaxSel == 2         \* numbers typed in one multi-selection
MaxPool == 6        \* remotes of a dispatch in the thread-pool sweep
MaxAdds == 10       \* add_to_history calls of the history sweep
MaxHistory == 5     \* largest max_history of the history sweep
MaxCalls == 1       \* git commands started by the menus before they are left
MaxRemoteOps == 3   \* git commands of a sequence of remote operations
MaxPieces == 2      \* pieces a checked branch name is made of

\* ------------------------------------------------------------------ text

Empty == <<>>
Main == <<"m", "a", "i", "n">>
Dev == <<"d", "e", "v">>

Whitespace == {" ", "\t", "\n"}

RECURSIVE LStrip(_)
LStrip(s) ==
    IF s # <<>> /\ Head(s) \in Whitespace THEN LStrip(Tail(s)) ELSE s

RECURSIVE RStrip(_)
RStrip(s) ==
    IF s # <<>> /\ s[Len(s)] \in Whitespace
    THEN RStrip(SubSeq(s, 1, Len(s) - 1)) ELSE s

\* str.strip()
Strip(s) == RStrip(LStrip(s))

\* `sub in name`
Contains(name, sub) ==
    \E i \in 1..(Len(name) - Len(sub) + 1) :
        SubSeq(name, i, i + Len(sub) - 1) = sub

StartsWith(name, pre) ==
    Len(pre) <= Len(name) /\ SubSeq(name, 1, Len(pre)) = pre

EndsWith(name, suf) ==
    Len(suf) <= Len(name)
    /\ SubSeq(name, Len(name) - Len(suf) + 1, Len(name)) = suf

invalid_chars ==
    { <<" ">>, <<"~">>, <<"^">>, <<":">>, <<"?">>, <<"*">>, <<"[">>,
      <<"\\">>, <<".", ".">> }

validate_branch_name(name) ==
    IF name = <<>> THEN FALSE
    ELSE IF \E c \in invalid_chars : Contains(name, c) THEN FALSE
    ELSE IF StartsWith(name, <<"-">>) \/ EndsWith(name, <<".">>)
            \/ EndsWith(name, <<".", "l", "o", "c", "k">>) THEN FALSE
    ELSE TRUE

\* the prefixes validate_url accepts
url_patterns ==
    { <<"h", "t", "t", "p", ":", "/", "/">>,
      <<"h", "t", "t", "p", "s", ":", "/", "/">>,
      <<"g", "i", "t", "@">>,
      <<"s", "s", "h", ":", "/", "/">>,
      <<"f", "i", "l", "e", ":", "/", "/">>,
      <<"/">>,
      <<".", ".">> }

validate_url(url) ==
    IF url = <<>> THEN FALSE
    ELSE \E p \in url_patterns : StartsWith(url, p)

\* get_input: the typed line is stripped; an empty line gives the default
get_input(typed, default) ==
    IF default # <<>>
    THEN (IF Strip(typed) # <<>> THEN Strip(typed) ELSE default)
    ELSE Strip(typed)

LowerChar(c) ==
    CASE c = "Y" -> "y"
      [] c = "E" -> "e"
      [] c = "S" -> "s"
      [] c = "N" -> "n"
      [] c = "O" -> "o"
      [] c = "C" -> "c"
      [] OTHER -> c

\* str.lower()
Lower(s) == [i \in 1..Len(s) |-> LowerChar(s[i])]

\* a confirm on which an empty line is a yes whatever the default
confirm_EmptyIsYes(typed, default) ==
    LET response == Lower(Strip(typed))
    IN  response = <<>> \/ response \in { <<"y">>, <<"y", "e", "s">> }

\* confirm: the answer is stripped and lower-cased; an empty answer gives
\* the default
confirm(typed, default) ==
    LET response == Lower(Strip(typed))
    IN  IF response # <<>>
        THEN response \in { <<"y">>, <<"y", "e", "s">> }
        ELSE default

\* ------------------------------------------------------- configuration

DefaultConfig ==
    [ name |-> Empty, email |-> Empty, default_branch |-> Main,
      auto_push |-> TRUE, show_emoji |-> TRUE, default_remote |-> "origin",
      use_colors |-> TRUE, parallel_push |-> TRUE, max_history |-> 20 ]

\* dict.update: the keys of `other` replace or extend those of `d`
DictUpdate(d, other) ==
    [k \in DOMAIN d \cup DOMAIN other |->
        IF k \in DOMAIN other THEN other[k] ELSE d[k]]

\* A persisted file: absent, unparseable, or holding parsed JSON data
Absent == [kind |-> "absent", data |-> <<>>]
Corrupt == [kind |-> "corrupt", data |-> <<>>]
Holding(d) == [kind |-> "json", data |-> d]

\* load_config: the defaults, updated with the file's mapping when the file
\* exists and parses
load_config(file) ==
    IF file.kind = "json" THEN DictUpdate(DefaultConfig, file.data)
    ELSE DefaultConfig

\* load_history: the file's list when the file exists and parses
load_history(file) ==
    IF file.kind = "json" THEN file.data ELSE <<>>

\* list[start:] of Python, for any integer start
SliceFrom(h, start) ==
    LET l == Len(h)
        st == IF start < 0
              THEN (IF l + start < 0 THEN 0 ELSE l + start)
              ELSE (IF start > l THEN l ELSE start)
    IN  SubSeq(h, st + 1, l)

\* a save_history keeping the oldest max_history entries
TrimHistory_KeepOldest(h, cfg) ==
    SubSeq(h, 1, IF cfg.max_history < Len(h) THEN cfg.max_history ELSE Len(h))

\* save_history, in memory: self.history = self.history[-max_history:]
TrimHistory(h, cfg) == SliceFrom(h, 0 - cfg.max_history)

\* what open(file, 'w') followed by json.dump leaves on disk
WriteOutcomes == {"ok", "open_fails", "write_fails"}

WriteFile(old, content, w) ==
    CASE w = "ok" -> Holding(content)
      [] w = "open_fails" -> old
      [] w = "write_fails" -> Corrupt

\* an add_to_history appending its entry twice
AddToHistory_Twice(h, cfg, command, description) ==
    TrimHistory(h \o << [command |-> command, description |-> description],
                        [command |-> command, description |-> description] >>,
                cfg)

\* add_to_history followed by its save_history; the timestamp of the entry
\* is left out
AddToHistory(h, cfg, command, description) ==
    TrimHistory(Append(h, [command |-> command, description |-> description]),
                cfg)

\* A file whose bytes are not text in the encoding open(file, 'r') uses
Undecodable == [kind |-> "undecodable", data |-> <<>>]

\* json.load inside load_config / load_history raises an exception that is
\* neither JSONDecodeError nor IOError (UnicodeDecodeError), which the
\* except clause lets through
load_raises(file) == file.kind = "undecodable"

\* print_error / print_success: colorize reads self.colors_enabled before
\* anything is printed, and __init__ assigns that attribute last
print_message(proc, message) ==
    IF proc.colors_enabled = "unset"
    THEN [raised |-> TRUE, printed |-> <<>>]
    ELSE [raised |-> FALSE, printed |-> <<message>>]

\* what the except clause of save_config prints for the outcome of the write
save_config_report(proc, w) ==
    IF w = "ok" THEN [raised |-> FALSE, printed |-> <<>>]
    ELSE print_message(proc, "Could not save configuration")

\* what the except clause of save_history prints: `except IOError: pass`
save_history_report(proc, w) == [raised |-> FALSE, printed |-> <<>>]

\* The record kept of the most recent call of a method of the wrapper: what
\* its save_config and its save_history did to their file, what it printed
\* as an error, whether an exception left it
Call(op, config_write, history_write, printed, raised) ==
    [op |-> op, config_write |-> config_write,
     history_write |-> history_write, printed |-> printed, raised |-> raised]

NoCall == Call("none", "none", "none", <<>>, FALSE)

\* The gw process: whether the git binary runs, sys.argv[1] (<<>> without
\* arguments), self.colors_enabled, the exit status ("running" until the
\* process ends) and whether it ended with an uncaught exception
Process(git, argv, colors_enabled, exit, traceback) ==
    [git |-> git, argv |-> argv, colors_enabled |-> colors_enabled,
     exit |-> exit, traceback |-> traceback]

\* the process once InteractiveGitWrapper() has returned
Constructed(argv) == Process("ok", argv, "on", "running", FALSE)

\* add_to_history(command, description): the entry is appended, the list is
\* trimmed, the file is written
add_to_history(command, description, w) ==
    /\ history' = AddToHistory(history, config, command, description)
    /\ added' = Append(added,
                       [command |-> command, description |-> description])
    /\ history_file' = WriteFile(history_file, history', w)

\* -------------------------------------------------------------- prompts

Digits == <<"0", "1", "2", "3", "4", "5", "6", "7", "8", "9">>

IsNumber(tok) == \E n \in 1..Len(Digits) : Digits[n] = tok

\* int(tok) of a one-digit token
ToInt(tok) == (CHOOSE n \in 1..Len(Digits) : Digits[n] = tok) - 1

RECURSIVE SelectFrom(_, _, _)
\* the for loop of get_multiple_choice over the parsed numbers
SelectFrom(nums, choices, selected) ==
    IF nums = <<>> THEN selected
    ELSE IF 1 <= Head(nums) /\ Head(nums) <= Len(choices)
         THEN SelectFrom(Tail(nums), choices,
                         Append(selected, choices[Head(nums)]))
         ELSE <<>>

\* get_multiple_choice on one typed line, given as its comma-separated
\* tokens (no token for an empty line): "again" when int() raises ValueError
\* and the prompt is repeated, otherwise the returned list
get_multiple_choice(tokens, choices) ==
    IF tokens = <<>> THEN [kind |-> "list", value |-> <<>>]
    ELSE IF \E i \in 1..Len(tokens) : ~IsNumber(tokens[i])
         THEN [kind |-> "again", value |-> <<>>]
         ELSE [kind |-> "list",
               value |-> SelectFrom([i \in 1..Len(tokens) |-> ToInt(tokens[i])],
                                    choices, <<>>)]

\* get_remotes: the lines of `git remote`
get_remotes == git_remotes

\* get_choice on one typed line, given as its token ("" for an empty line);
\* `default` is "" when the caller passes none: "again" when the prompt is
\* repeated, otherwise the returned choice
get_choice(tok, choices, default) ==
    IF tok = "" /\ default # "" THEN [kind |-> "value", value |-> default]
    ELSE IF ~IsNumber(tok) THEN [kind |-> "again", value |-> ""]
    ELSE IF 1 <= ToInt(tok) /\ ToInt(tok) <= Len(choices)
         THEN [kind |-> "value", value |-> choices[ToInt(tok)]]
         ELSE [kind |-> "again", value |-> ""]

\* --------------------------------------------------------------- dispatch

\* What one `git push` subprocess does: exit 0, exit non-zero
\* (CalledProcessError, which run_git_command turns into False), an exception
\* run_git_command does not catch, or no exit at all
Outcomes == {"ok", "fail", "raise", "hang"}

PoolWorkers == 5

Min(a, b) == IF a < b THEN a ELSE b

\* an executor with one thread per remote, however many there are
max_workers_Unbounded(rs) == Len(rs)

\* max_workers of the ThreadPoolExecutor
max_workers(rs) == Min(Len(rs), PoolWorkers)

SeqIdle == [pc |-> "idle", i |-> 1, success_count |-> 0,
            failed_remotes |-> <<>>]

ParIdle == [pc |-> "idle", fut |-> <<>>, success_count |-> 0,
            failed_remotes |-> <<>>]

\* use_parallel of interactive_push_multiple / interactive_push_all
use_parallel(cfg, rs) == cfg.parallel_push /\ Len(rs) > 1

\* _push_to_remotes deciding on the configuration key alone
PushMode_ConfigOnly(cfg, rs, parallel) ==
    IF cfg.parallel_push THEN "parallel" ELSE "sequential"

\* the condition of _push_to_remotes
PushMode(cfg, rs, parallel) ==
    IF parallel /\ cfg.parallel_push /\ Len(rs) > 1
    THEN "parallel" ELSE "sequential"

\* the sequential loop leaving a failed remote out of failed_remotes
SeqRecord_ForgetFailed(s, remote, returned) ==
    IF returned
    THEN [s EXCEPT !.success_count = @ + 1, !.i = @ + 1, !.pc = "loop"]
    ELSE [s EXCEPT !.i = @ + 1, !.pc = "loop"]

\* the sequential loop pushing again to a remote whose push failed
SeqRecord_RetryFailed(s, remote, returned) ==
    IF returned
    THEN [s EXCEPT !.success_count = @ + 1, !.i = @ + 1, !.pc = "loop"]
    ELSE [s EXCEPT !.pc = "loop"]

\* the sequential loop leaving out the remote that follows a failed one
SeqRecord_SkipAfterFailed(s, remote, returned) ==
    IF returned
    THEN [s EXCEPT !.success_count = @ + 1, !.i = @ + 1, !.pc = "loop"]
    ELSE [s EXCEPT !.failed_remotes = Append(@, remote), !.i = @ + 2,
                   !.pc = "loop"]

\* the body of the for loop of _push_sequential once _execute_push returned
SeqRecord(s, remote, returned) ==
    IF returned
    THEN [s EXCEPT !.success_count = @ + 1, !.i = @ + 1, !.pc = "loop"]
    ELSE [s EXCEPT !.failed_remotes = Append(@, remote), !.i = @ + 1,
                   !.pc = "loop"]

\* the as_completed loop counting every returned value as a success
ParRecord_FailAsSuccess(p, i, remote, ended) ==
    IF ended # "raise"
    THEN [p EXCEPT !.success_count = @ + 1, !.fut[i] = "collected"]
    ELSE [p EXCEPT !.failed_remotes = Append(@, remote),
                   !.fut[i] = "collected"]

\* the as_completed loop swallowing an exception of a future
ParRecord_DropRaise(p, i, remote, ended) ==
    IF ended = "ok"
    THEN [p EXCEPT !.success_count = @ + 1, !.fut[i] = "collected"]
    ELSE IF ended = "raise"
    THEN [p EXCEPT !.fut[i] = "collected"]
    ELSE [p EXCEPT !.failed_remotes = Append(@, remote),
                   !.fut[i] = "collected"]

\* the body of the as_completed loop of _push_parallel for the future of
\* entry i, whose worker ended with `ended`
ParRecord(p, i, remote, ended) ==
    IF ended = "ok"
    THEN [p EXCEPT !.success_count = @ + 1, !.fut[i] = "collected"]
    ELSE [p EXCEPT !.failed_remotes = Append(@, remote),
                   !.fut[i] = "collected"]

\* the values handed to _print_push_summary
Summary(success, total, failed) ==
    [success |-> success, total |-> total, failed |-> failed]

Running(p) == {i \in DOMAIN p.fut : p.fut[i] = "running"}

\* no push of a request of n entries has been started
NoResults(n) == [i \in 1..n |-> "unknown"]

\* the subprocess started for entry i does o, unless the harness fixed
\* beforehand what it does
Started(res, i, o) ==
    IF res[i] = "unknown" THEN [res EXCEPT ![i] = o] ELSE res

\* _push_to_remotes(rs, b, parallel): the chosen function is entered
PushToRemotes(rs, b, parallel) ==
    /\ remotes' = rs
    /\ branch' = b
    /\ results' = NoResults(Len(rs))
    /\ mode' = PushMode(config, rs, parallel)
    /\ IF PushMode(config, rs, parallel) = "parallel"
       THEN /\ par' = [ParIdle EXCEPT !.pc = "submit",
                                      !.fut = [i \in 1..Len(rs) |-> "new"]]
            /\ seq' = seq
       ELSE /\ seq' = [SeqIdle EXCEPT !.pc = "loop"]
            /\ par' = par

\* _push_sequential: _execute_push of the next remote is called
SeqIssue ==
    /\ seq.pc = "loop"
    /\ seq.i <= Len(remotes)
    /\ seq' = [seq EXCEPT !.pc = "running"]
    /\ push_calls' = Append(push_calls, <<remotes[seq.i], branch>>)
    /\ \E o \in Outcomes : results' = Started(results, seq.i, o)
    /\ UNCHANGED <<persistVars, gitVars, auxVars, branch, remotes, mode, pc,
                   par, out>>

\* _push_sequential: the push in flight ends; an exception leaves the loop,
\* the function and its callers
SeqReturn ==
    /\ seq.pc = "running"
    /\ results[seq.i] # "hang"
    /\ IF results[seq.i] = "raise"
       THEN /\ seq' = [seq EXCEPT !.pc = "raised"]
            /\ pc' = IF pc \in {"pushing_multiple", "pushing_all"}
                     THEN "crashed" ELSE pc
       ELSE /\ seq' = SeqRecord(seq, remotes[seq.i], results[seq.i] = "ok")
            /\ pc' = pc
    /\ UNCHANGED <<persistVars, gitVars, auxVars, requestVars, par,
                   push_calls, out>>

\* _push_sequential: the loop is over, the summary is printed
SeqFinish ==
    /\ seq.pc = "loop"
    /\ seq.i > Len(remotes)
    /\ out' = Append(out, Summary(seq.success_count, Len(remotes),
                                  seq.failed_remotes))
    /\ seq' = [seq EXCEPT !.pc = "done"]
    /\ UNCHANGED <<persistVars, gitVars, auxVars, requestVars, pc, par,
                   push_calls>>

\* _push_parallel: executor.submit for the next remote of the list
ParSubmit ==
    /\ par.pc = "submit"
    /\ LET i == CHOOSE j \in DOMAIN par.fut :
                    par.fut[j] = "new"
                    /\ \A k \in DOMAIN par.fut : k < j => par.fut[k] # "new"
       IN  par' = [par EXCEPT !.fut[i] = "queued",
                              !.pc = IF i = Len(remotes) THEN "collect"
                                     ELSE "submit"]
    /\ UNCHANGED <<persistVars, gitVars, auxVars, requestVars, pc, seq,
                   push_calls, out>>

\* a pool thread takes the oldest queued work item and calls _execute_push
WorkerStart(i) ==
    /\ par.pc \in {"submit", "collect"}
    /\ par.fut[i] = "queued"
    /\ \A k \in DOMAIN par.fut : k < i => par.fut[k] # "queued"
    /\ Cardinality(Running(par)) < max_workers(remotes)
    /\ par' = [par EXCEPT !.fut[i] = "running"]
    /\ push_calls' = Append(push_calls, <<remotes[i], branch>>)
    /\ \E o \in Outcomes : results' = Started(results, i, o)
    /\ UNCHANGED <<persistVars, gitVars, auxVars, branch, remotes, mode, pc,
                   seq, out>>

\* the push of a pool thread ends: the future holds its value or exception
WorkerFinish(i) ==
    /\ par.pc \in {"submit", "collect"}
    /\ par.fut[i] = "running"
    /\ results[i] # "hang"
    /\ par' = [par EXCEPT !.fut[i] = "finished"]
    /\ UNCHANGED <<persistVars, gitVars, auxVars, requestVars, pc, seq,
                   push_calls, out>>

\* _push_parallel: as_completed yields a finished future, whichever it is
ParCollect(i) ==
    /\ par.pc = "collect"
    /\ par.fut[i] = "finished"
    /\ par' = ParRecord(par, i, remotes[i], results[i])
    /\ UNCHANGED <<persistVars, gitVars, auxVars, requestVars, pc, seq,
                   push_calls, out>>

\* _push_parallel: every future was yielded, the executor is shut down and
\* the summary is printed
ParFinish ==
    /\ par.pc = "collect"
    /\ \A i \in DOMAIN par.fut : par.fut[i] = "collected"
    /\ out' = Append(out, Summary(par.success_count, Len(remotes),
                                  par.failed_remotes))
    /\ par' = [par EXCEPT !.pc = "done"]
    /\ UNCHANGED <<persistVars, gitVars, auxVars, requestVars, pc, seq,
                   push_calls>>

\* ------------------------------------------------------------ push flows

RemoteNames == <<"origin", "upstream", "mirror", "backup", "staging",
                 "gitlab", "github">>

\* lines typed at the "Branch to push" prompt
TypedBranches ==
    { <<>>,
      <<" ">>,
      <<"m", "y", " ", "b">>,
      <<"-", "f">>,
      <<"r", "e", "l", ".">>,
      <<"x", ".", "l", "o", "c", "k">>,
      <<"a", ".", ".", "b">> }

\* lines typed at a [y/N] prompt
TypedAnswers == { <<>>, <<"y">>, <<"Y", "E", "S">>, <<"n">> }

\* tokens of a line typed at the multi-selection prompt
Tokens == {Digits[n + 1] : n \in 0..(MaxRemotes + 1)} \cup {"x"}

RECURSIVE SeqsUpTo(_, _)
SeqsUpTo(S, n) ==
    IF n = 0 THEN {<<>>}
    ELSE LET shorter == SeqsUpTo(S, n - 1)
         IN  shorter \cup {Append(q, x) : q \in shorter, x \in S}

TypedSelections == SeqsUpTo(Tokens, MaxSel)

\* `current_branch or self.config['default_branch']`
DefaultBranch == IF current_branch # <<>> THEN current_branch
                 ELSE config.default_branch

\* interactive_push_menu: no remotes, or the chosen entry of the menu (the
\* single-remote push and the dry run are not part of this model)
InteractivePushMenu ==
    /\ pc = "push_menu"
    /\ \E choice \in {"multiple", "all", "back"} :
         pc' = IF get_remotes = <<>> THEN "done"
               ELSE CASE choice = "multiple" -> "push_multiple"
                      [] choice = "all" -> "push_all"
                      [] OTHER -> "done"
    /\ UNCHANGED <<persistVars, gitVars, auxVars, requestVars, seq, par,
                   push_calls, out>>

\* interactive_push_multiple up to its multi-selection prompt
InteractivePushMultiple ==
    /\ pc = "push_multiple"
    /\ IF Len(get_remotes) <= 1
       THEN /\ pc' = "done"
            /\ branch' = branch
       ELSE /\ pc' = "select"
            /\ \E typed \in TypedBranches :
                 branch' = get_input(typed, DefaultBranch)
    /\ UNCHANGED <<persistVars, gitVars, auxVars, remotes, results, mode, seq,
                   par, push_calls, out>>

\* interactive_push_multiple from one line typed at the multi-selection
\* prompt to the call of _push_to_remotes
SelectRemotes ==
    /\ pc = "select"
    /\ \E tokens \in TypedSelections :
         LET got == get_multiple_choice(tokens, get_remotes)
         IN  IF got.kind = "again"
             THEN UNCHANGED <<pc, requestVars, seq, par>>
             ELSE IF got.value = <<>>
             THEN /\ pc' = "done"
                  /\ UNCHANGED <<requestVars, seq, par>>
             ELSE /\ PushToRemotes(got.value, branch,
                                   use_parallel(config, got.value))
                  /\ pc' = "pushing_multiple"
    /\ UNCHANGED <<persistVars, gitVars, auxVars, push_calls, out>>

\* interactive_push_all up to the call of _push_to_remotes
InteractivePushAll ==
    /\ pc = "push_all"
    /\ \E typed \in TypedBranches, answer \in TypedAnswers :
         IF get_remotes = <<>> \/ ~confirm(answer, FALSE)
         THEN /\ pc' = "done"
              /\ UNCHANGED <<requestVars, seq, par>>
         ELSE /\ PushToRemotes(get_remotes,
                               get_input(typed, DefaultBranch),
                               use_parallel(config, get_remotes))
              /\ pc' = "pushing_all"
    /\ UNCHANGED <<persistVars, gitVars, auxVars, push_calls, out>>

\* the add_to_history call that follows _push_to_remotes in both flows
PushRecordHistory ==
    /\ pc \in {"pushing_multiple", "pushing_all"}
    /\ seq.pc = "done" \/ par.pc = "done"
    /\ \E w \in WriteOutcomes :
         /\ add_to_history("push",
                IF pc = "pushing_multiple"
                THEN <<"Pushed", branch, "to", Len(remotes), "remotes">>
                ELSE <<"Pushed", branch, "to", 0, "all remotes">>, w)
         /\ last_call' = Call("add_to_history", "none", w,
                              save_history_report(process, w).printed, FALSE)
    /\ pc' = "done"
    /\ UNCHANGED <<config, config_file, gitVars, git_calls, process,
                   requestVars, seq, par, push_calls, out>>

\* content of the configuration file when the process starts
ConfigFiles == {Absent, Holding([parallel_push |-> FALSE])}

\* `gw push`: the wrapper is constructed and interactive_push_menu entered
Init ==
    /\ config_file \in ConfigFiles
    /\ config = load_config(config_file)
    /\ history_file = Absent
    /\ history = load_history(history_file)
    /\ git_remotes \in {SubSeq(RemoteNames, 1, n) : n \in 0..MaxRemotes}
    /\ current_branch \in {Empty, Dev}
    /\ pc = "push_menu"
    /\ branch = Empty
    /\ remotes = <<>>
    /\ results = <<>>
    /\ mode = "none"
    /\ seq = SeqIdle
    /\ par = ParIdle
    /\ push_calls = <<>>
    /\ out = <<>>
    /\ added = <<>>
    /\ last_call = NoCall
    /\ git_calls = <<>>
    /\ process = Constructed(<<"p", "u", "s", "h">>)

Next ==
    \/ InteractivePushMenu
    \/ InteractivePushMultiple
    \/ SelectRemotes
    \/ InteractivePushAll
    \/ PushRecordHistory
    \/ SeqIssue
    \/ SeqReturn
    \/ SeqFinish
    \/ ParSubmit
    \/ \E i \in DOMAIN par.fut : WorkerStart(i)
    \/ \E i \in DOMAIN par.fut : WorkerFinish(i)
    \/ \E i \in DOMAIN par.fut : ParCollect(i)
    \/ ParFinish

Spec == Init /\ [][Next]_vars

\* --------------------------------------------- both dispatches, one input

\* what the pushes of a request of n entries may do
AllResults(n) == [1..n -> Outcomes]

\* A harness calls _push_sequential and then _push_parallel with the same
\* list of remotes, having fixed what the push to each remote does
InitBoth ==
    /\ config_file = Absent
    /\ config = load_config(config_file)
    /\ history_file = Absent
    /\ history = load_history(history_file)
    /\ git_remotes = SubSeq(RemoteNames, 1, MaxRemotes)
    /\ current_branch = Empty
    /\ pc = "harness"
    /\ branch = Main
    /\ \E n \in 1..MaxRemotes :
         /\ remotes = SubSeq(RemoteNames, 1, n)
         /\ results \in AllResults(n)
    /\ mode = "sequential"
    /\ seq = [SeqIdle EXCEPT !.pc = "loop"]
    /\ par = ParIdle
    /\ push_calls = <<>>
    /\ out = <<>>
    /\ added = <<>>
    /\ last_call = NoCall
    /\ git_calls = <<>>
    /\ process = Constructed(<<>>)

\* the harness calls _push_parallel once _push_sequential is left
HarnessCallParallel ==
    /\ pc = "harness"
    /\ seq.pc \in {"done", "raised"}
    /\ par.pc = "idle"
    /\ par' = [ParIdle EXCEPT !.pc = "submit",
                              !.fut = [i \in 1..Len(remotes) |-> "new"]]
    /\ mode' = "parallel"
    /\ UNCHANGED <<persistVars, gitVars, auxVars, branch, remotes, results,
                   pc, seq, push_calls, out>>

NextBoth ==
    \/ SeqIssue
    \/ SeqReturn
    \/ SeqFinish
    \/ HarnessCallParallel
    \/ ParSubmit
    \/ \E i \in DOMAIN par.fut : WorkerStart(i)
    \/ \E i \in DOMAIN par.fut : WorkerFinish(i)
    \/ \E i \in DOMAIN par.fut : ParCollect(i)
    \/ ParFinish

SpecBoth == InitBoth /\ [][NextBoth]_vars

\* ------------------------------------------------ the thread-pool sweep

\* what the harness of the sweep lets the pushes do: the pushes that find
\* a free thread at once all do one thing, the later ones all do one thing
PoolResults ==
    {[i \in 1..MaxPool |-> IF i <= PoolWorkers THEN a ELSE b] :
        a \in Outcomes, b \in Outcomes}

\* _push_parallel is called with MaxPool remotes, more than the pool has
\* threads
InitPool ==
    /\ config_file = Absent
    /\ config = load_config(config_file)
    /\ history_file = Absent
    /\ history = load_history(history_file)
    /\ git_remotes = SubSeq(RemoteNames, 1, MaxPool)
    /\ current_branch = Empty
    /\ pc = "harness"
    /\ branch = Main
    /\ remotes = SubSeq(RemoteNames, 1, MaxPool)
    /\ results \in PoolResults
    /\ mode = "parallel"
    /\ seq = SeqIdle
    /\ par = [ParIdle EXCEPT !.pc = "submit",
                             !.fut = [i \in 1..MaxPool |-> "new"]]
    /\ push_calls = <<>>
    /\ out = <<>>
    /\ added = <<>>
    /\ last_call = NoCall
    /\ git_calls = <<>>
    /\ process = Constructed(<<>>)

NextPool ==
    \/ ParSubmit
    \/ \E i \in DOMAIN par.fut : WorkerStart(i)
    \/ \E i \in DOMAIN par.fut : WorkerFinish(i)
    \/ \E i \in DOMAIN par.fut : ParCollect(i)
    \/ ParFinish

SpecPool == InitPool /\ [][NextPool]_vars

\* a dispatch to MaxPool remotes just started from "Push to all remotes",
\* sequential (parallel_push off) or parallel, the way each push will end
\* fixed as in the thread-pool sweep
InitLive ==
    /\ config_file = Absent
    /\ \E parallel \in BOOLEAN :
         /\ config = [load_config(config_file) EXCEPT
                         !.parallel_push = parallel]
         /\ mode = PushMode(config, SubSeq(RemoteNames, 1, MaxPool), TRUE)
         /\ IF parallel
            THEN /\ seq = SeqIdle
                 /\ par = [ParIdle EXCEPT
                              !.pc = "submit",
                              !.fut = [i \in 1..MaxPool |-> "new"]]
            ELSE /\ seq = [SeqIdle EXCEPT !.pc = "loop"]
                 /\ par = ParIdle
    /\ history_file = Absent
    /\ history = load_history(history_file)
    /\ git_remotes = SubSeq(RemoteNames, 1, MaxPool)
    /\ current_branch = Empty
    /\ pc = "pushing_all"
    /\ branch = Main
    /\ remotes = SubSeq(RemoteNames, 1, MaxPool)
    /\ results \in PoolResults
    /\ push_calls = <<>>
    /\ out = <<>>
    /\ added = <<>>
    /\ last_call = NoCall
    /\ git_calls = <<>>
    /\ process = Constructed(<<>>)

NextLive ==
    \/ SeqIssue
    \/ SeqReturn
    \/ SeqFinish
    \/ ParSubmit
    \/ \E i \in DOMAIN par.fut : WorkerStart(i)
    \/ \E i \in DOMAIN par.fut : WorkerFinish(i)
    \/ \E i \in DOMAIN par.fut : ParCollect(i)
    \/ ParFinish
    \/ PushRecordHistory

\* the main thread and the pool threads are scheduled fairly: a step that
\* stays possible is taken
SpecLive == InitLive /\ [][NextLive]_vars /\ WF_vars(NextLive)

\* ---------------------------------------------------- the history sweep

\* no push request has been made
IdleDispatch ==
    /\ branch = Empty
    /\ remotes = <<>>
    /\ results = <<>>
    /\ mode = "none"
    /\ seq = SeqIdle
    /\ par = ParIdle
    /\ push_calls = <<>>
    /\ out = <<>>

\* configuration files that set max_history and nothing else
HistoryConfigFiles == {Holding([max_history |-> n]) : n \in 0..MaxHistory}

\* test_history_limit: a wrapper with an empty history and a max_history
InitHistory ==
    /\ config_file \in HistoryConfigFiles
    /\ config = load_config(config_file)
    /\ history_file = Absent
    /\ history = load_history(history_file)
    /\ git_remotes = <<>>
    /\ current_branch = Empty
    /\ pc = "harness"
    /\ IdleDispatch
    /\ added = <<>>
    /\ last_call = NoCall
    /\ git_calls = <<>>
    /\ process = Constructed(<<>>)

\* test_history_limit: add_to_history(f"command{i}", f"Description {i}")
HistoryAdd ==
    /\ pc = "harness"
    /\ Len(added) < MaxAdds
    /\ \E w \in WriteOutcomes :
         /\ add_to_history(<<"command", Len(added)>>,
                           <<"Description", Len(added)>>, w)
         /\ last_call' = Call("add_to_history", "none", w,
                              save_history_report(process, w).printed, FALSE)
    /\ UNCHANGED <<config, config_file, gitVars, git_calls, process, pc,
                   requestVars, dispatchVars>>

NextHistory == HistoryAdd

SpecHistory == InitHistory /\ [][NextHistory]_vars

\* ------------------------------------------ configuration and remotes

\* save_config with the configuration the operation has just assigned
save_config(w) == config_file' = WriteFile(config_file, config', w)

\* keys of the "Toggle ..." entries of the configuration menu
ToggleKeys == {"show_emoji", "parallel_push"}

\* lines typed at the "Enter your name" prompt
TypedValues == { <<>>, <<" ">>, <<" ", "d", "e", "v", " ">> }

\* lines typed at the "Remote URL" prompt
TypedUrls == { <<>>, <<" ", "/", "r", " ">>, <<"r">> }

\* names typed at the "Remote name" prompt ("" for an empty line)
TypedNames == {"", "origin", "upstream"}

\* tokens typed at a get_choice prompt
ChoiceTokens == {"", "1", "2", "3", "x"}

\* list q without its entries equal to x
RECURSIVE Without(_, _)
Without(q, x) ==
    IF q = <<>> THEN <<>>
    ELSE IF Head(q) = x THEN Without(Tail(q), x)
    ELSE <<Head(q)>> \o Without(Tail(q), x)

\* wrapper.load_config() called again on the wrapper
LoadConfig ==
    /\ pc = "menu"
    /\ config' = load_config(config_file)
    /\ pc' = IF load_raises(config_file) THEN "crashed" ELSE pc
    /\ last_call' = Call("load_config", "none", "none", <<>>,
                         load_raises(config_file))
    /\ UNCHANGED <<config_file, history, history_file, gitVars, added,
                   git_calls, process, requestVars, dispatchVars>>

\* a toggle_config without its save_config
toggle_config_NoSave(key) ==
    /\ pc = "menu"
    /\ config' = [config EXCEPT ![key] = ~@]
    /\ last_call' = Call("toggle_config", "none", "none", <<>>, FALSE)
    /\ UNCHANGED <<config_file, history, history_file, gitVars, added,
                   git_calls, process, pc, requestVars, dispatchVars>>

toggle_config(key) ==
    /\ pc = "menu"
    /\ config' = [config EXCEPT ![key] = ~@]
    /\ \E w \in WriteOutcomes :
         /\ save_config(w)
         /\ last_call' = Call("toggle_config", w, "none",
                              save_config_report(process, w).printed, FALSE)
    /\ UNCHANGED <<history, history_file, gitVars, added, git_calls, process,
                   pc, requestVars, dispatchVars>>

\* "Set Name": update_config('name', get_input(..., config['name']))
update_config(key, typed) ==
    /\ pc = "menu"
    /\ LET value == get_input(typed, config[key])
       IN  IF value # <<>>
           THEN /\ config' = [config EXCEPT ![key] = value]
                /\ \E w \in WriteOutcomes :
                     /\ save_config(w)
                     /\ last_call' =
                            Call("update_config", w, "none",
                                 save_config_report(process, w).printed,
                                 FALSE)
           ELSE /\ last_call' = Call("update_config", "none", "none", <<>>,
                                     FALSE)
                /\ UNCHANGED <<config, config_file>>
    /\ UNCHANGED <<history, history_file, gitVars, added, git_calls, process,
                   pc, requestVars, dispatchVars>>

\* interactive_set_default_remote and interactive_set_default_remote_config
\* (which first asks is_git_repo) on one line typed at the prompt
interactive_set_default_remote(op, is_repo, tok) ==
    /\ pc = "menu"
    /\ LET got == get_choice(tok, get_remotes, config.default_remote)
       IN  IF ~is_repo \/ get_remotes = <<>>
           THEN /\ last_call' = Call(op, "none", "none", <<>>, FALSE)
                /\ UNCHANGED <<config, config_file>>
           ELSE IF got.kind = "again"
           THEN UNCHANGED <<config, config_file, last_call>>
           ELSE /\ config' = [config EXCEPT !.default_remote = got.value]
                /\ \E w \in WriteOutcomes :
                     /\ save_config(w)
                     /\ last_call' =
                            Call(op, w, "none",
                                 save_config_report(process, w).printed,
                                 FALSE)
    /\ UNCHANGED <<history, history_file, gitVars, added, git_calls, process,
                   pc, requestVars, dispatchVars>>

\* A git command started by a handler: its fixed words, the remote it names
\* ("" if none) and its other arguments, in order, each a text
GitCmd(words, remote, args) ==
    [words |-> words, remote |-> remote, args |-> args]

NoGit == GitCmd(<<>>, "", <<>>)

\* What a handler does that others can see, in the order it does it: a
\* confirm() with the line typed, a git command that only reads, a git
\* command that changes something
Confirm(typed) ==
    [kind |-> "confirm", typed |-> typed, git |-> NoGit, ok |-> TRUE]
Query(words) ==
    [kind |-> "query", typed |-> <<>>, git |-> GitCmd(words, "", <<>>),
     ok |-> TRUE]
Git(words, remote, args) ==
    [kind |-> "git", typed |-> <<>>, git |-> GitCmd(words, remote, args),
     ok |-> TRUE]

\* the events of a handler whose last command returned non-zero
FailedLast(events) == [events EXCEPT ![Len(events)].ok = FALSE]

RECURSIVE Commands(_)
\* the commands among the events that change something
Commands(events) ==
    IF events = <<>> THEN <<>>
    ELSE IF Head(events).kind = "git"
         THEN <<Head(events).git>> \o Commands(Tail(events))
         ELSE Commands(Tail(events))

\* the record kept of a handler, with its events
Flow(op, config_write, history_write, printed, events) ==
    [op |-> op, config_write |-> config_write,
     history_write |-> history_write, printed |-> printed, raised |-> FALSE,
     events |-> events]

\* a handler that ran `events`, saved nothing and printed no error
Ran(op, events) ==
    /\ last_call' = Flow(op, "none", "none", <<>>, events)
    /\ git_calls' = git_calls \o Commands(events)

GitRemote == Query(<<"git", "remote">>)

\* interactive_add_remote; `git remote add` returns non-zero for a name that
\* exists already, and may for any other
interactive_add_remote(typed_name, typed_url, git_ok) ==
    /\ pc = "menu"
    /\ LET name == IF typed_name = "" THEN "origin" ELSE typed_name
           url == get_input(typed_url, <<>>)
           cmd == Git(<<"git", "remote", "add">>, name, <<url>>)
           exists == \E i \in DOMAIN git_remotes : git_remotes[i] = name
           op == "interactive_add_remote"
       IN  IF url = <<>> \/ ~validate_url(url)
           THEN /\ Ran(op, <<>>)
                /\ UNCHANGED <<persistVars, gitVars, added>>
           ELSE IF exists \/ ~git_ok
           THEN /\ git_calls' = Append(git_calls, cmd.git)
                /\ last_call' =
                       Flow(op, "none", "none",
                            print_message(process,
                                          "Git command failed").printed,
                            FailedLast(<<cmd>>))
                /\ UNCHANGED <<persistVars, gitVars, added>>
           ELSE /\ git_calls' = Append(git_calls, cmd.git)
                /\ git_remotes' = Append(git_remotes, name)
                /\ current_branch' = current_branch
                /\ \E wh \in WriteOutcomes, wc \in WriteOutcomes :
                     /\ add_to_history("remote", <<"Added remote", name>>, wh)
                     /\ IF Len(git_remotes') = 1
                        THEN /\ config' = [config EXCEPT
                                              !.default_remote = name]
                             /\ save_config(wc)
                             /\ last_call' =
                                    Flow(op, wc, wh,
                                         save_history_report(process, wh)
                                             .printed
                                         \o save_config_report(process, wc)
                                                .printed,
                                         <<cmd, GitRemote>>)
                        ELSE /\ wc = "ok"
                             /\ last_call' =
                                    Flow(op, "none", wh,
                                         save_history_report(process, wh)
                                             .printed,
                                         <<cmd, GitRemote>>)
                             /\ UNCHANGED <<config, config_file>>
    /\ UNCHANGED <<process, pc, requestVars, dispatchVars>>

\* an interactive_remove_remote that leaves default_remote alone
interactive_remove_remote_KeepsDefault(tok, answer, git_ok) ==
    /\ pc = "menu"
    /\ LET got == get_choice(tok, get_remotes, "")
           op == "interactive_remove_remote"
           events == <<GitRemote, Confirm(answer),
                       Git(<<"git", "remote", "remove">>, got.value, <<>>)>>
       IN  /\ get_remotes # <<>>
           /\ got.kind = "value"
           /\ confirm(answer, FALSE)
           /\ git_ok
           /\ Ran(op, events)
           /\ git_remotes' = Without(git_remotes, got.value)
    /\ UNCHANGED <<persistVars, current_branch, added, process, pc,
                   requestVars, dispatchVars>>

\* interactive_remove_remote on one line typed at the selection prompt and
\* one at the confirmation
interactive_remove_remote(tok, answer, git_ok) ==
    /\ pc = "menu"
    /\ LET got == get_choice(tok, get_remotes, "")
           op == "interactive_remove_remote"
           cmd == Git(<<"git", "remote", "remove">>, got.value, <<>>)
       IN  IF get_remotes = <<>>
           THEN /\ Ran(op, <<GitRemote>>)
                /\ UNCHANGED <<config, config_file, gitVars>>
           ELSE IF got.kind = "again"
           THEN UNCHANGED <<config, config_file, last_call, gitVars,
                            git_calls>>
           ELSE IF ~confirm(answer, FALSE)
           THEN /\ Ran(op, <<GitRemote, Confirm(answer)>>)
                /\ UNCHANGED <<config, config_file, gitVars>>
           ELSE /\ git_calls' = Append(git_calls, cmd.git)
                /\ current_branch' = current_branch
                /\ IF ~git_ok
                   THEN /\ last_call' =
                              Flow(op, "none", "none",
                                   print_message(process,
                                       "Git command failed").printed,
                                   FailedLast(<<GitRemote, Confirm(answer),
                                                cmd>>))
                        /\ UNCHANGED <<config, config_file, git_remotes>>
                   ELSE /\ git_remotes' = Without(git_remotes, got.value)
                        /\ IF config.default_remote # got.value
                           THEN /\ last_call' =
                                      Flow(op, "none", "none", <<>>,
                                           <<GitRemote, Confirm(answer),
                                             cmd>>)
                                /\ UNCHANGED <<config, config_file>>
                           ELSE /\ config' =
                                     [config EXCEPT !.default_remote =
                                         IF git_remotes' # <<>>
                                         THEN git_remotes'[1] ELSE "origin"]
                                /\ \E w \in WriteOutcomes :
                                     /\ save_config(w)
                                     /\ last_call' =
                                          Flow(op, w, "none",
                                               save_config_report(process, w)
                                                   .printed,
                                               <<GitRemote, Confirm(answer),
                                                 cmd, GitRemote>>)
    /\ UNCHANGED <<history, history_file, added, process, pc, requestVars,
                   dispatchVars>>

\* a handler whose last git command returned non-zero
Failed(op, events) ==
    /\ last_call' = Flow(op, "none", "none",
                         print_message(process, "Git command failed").printed,
                         FailedLast(events))
    /\ git_calls' = git_calls \o Commands(events)
    /\ UNCHANGED <<history, history_file, added>>

\* a handler that ran `events` and then called add_to_history
Recorded(op, events, command, description) ==
    /\ git_calls' = git_calls \o Commands(events)
    /\ \E w \in WriteOutcomes :
         /\ add_to_history(command, description, w)
         /\ last_call' = Flow(op, "none", w,
                              save_history_report(process, w).printed, events)

\* a handler that ran `events` and left the history alone
Quiet(op, events) ==
    /\ Ran(op, events)
    /\ UNCHANGED <<history, history_file, added>>

\* what no handler but interactive_init and the remote handlers changes
FlowFrame ==
    UNCHANGED <<config, config_file, gitVars, process, pc, requestVars,
                dispatchVars>>

\* lines typed at a "new branch name" or "tag name" prompt
TypedNewNames ==
    { <<>>, <<" ", "d", "e", "v", " ">>, <<"d", " ", "v">>, <<"-", "f">> }

\* what `git branch`, `git tag` and `git stash list` can print, as lists
Listings == { <<>>, <<Main, Dev>> }

GitBranch == Query(<<"git", "branch">>)
ShowCurrent == Query(<<"git", "branch", "--show-current">>)

\* an interactive_create_branch that passes whatever was typed
interactive_create_branch_NoCheck(typed, git_ok) ==
    /\ pc = "menu"
    /\ LET branch_name == get_input(typed, <<>>)
           events == <<Git(<<"git", "checkout", "-b">>, "", <<branch_name>>)>>
           op == "interactive_create_branch"
       IN  IF git_ok
           THEN Recorded(op, events, "branch",
                         <<"Created branch", branch_name>>)
           ELSE Failed(op, events)
    /\ FlowFrame

\* interactive_create_branch on the line typed at its prompt
interactive_create_branch(typed, git_ok) ==
    /\ pc = "menu"
    /\ LET branch_name == get_input(typed, <<>>)
           events == <<Git(<<"git", "checkout", "-b">>, "", <<branch_name>>)>>
           op == "interactive_create_branch"
       IN  IF branch_name = <<>> THEN Quiet(op, <<>>)
           ELSE IF ~validate_branch_name(branch_name)
           THEN /\ last_call' = Flow(op, "none", "none",
                                     print_message(process,
                                         "Invalid branch name").printed,
                                     <<>>)
                /\ UNCHANGED <<git_calls, history, history_file, added>>
           ELSE IF git_ok
           THEN Recorded(op, events, "branch",
                         <<"Created branch", branch_name>>)
           ELSE Failed(op, events)
    /\ FlowFrame

\* interactive_delete_branch on the output of `git branch`, the token typed
\* at the selection and the line typed at the confirmation
interactive_delete_branch(listing, tok, answer, git_ok) ==
    /\ pc = "menu"
    /\ LET op == "interactive_delete_branch"
           others == Without(listing, current_branch)
           branches == IF Len(listing) > 1 THEN others ELSE listing
           got == get_choice(tok, branches, "")
           asked == <<GitBranch, ShowCurrent, Confirm(answer)>>
           cmd == Git(<<"git", "branch", "-d">>, "", <<got.value>>)
       IN  IF listing = <<>> THEN Quiet(op, <<GitBranch>>)
           ELSE IF branches = <<>> THEN Quiet(op, <<GitBranch, ShowCurrent>>)
           ELSE IF got.kind = "again"
           THEN UNCHANGED <<last_call, git_calls, history, history_file,
                            added>>
           ELSE IF ~confirm(answer, FALSE) THEN Quiet(op, asked)
           ELSE IF git_ok
           THEN Recorded(op, Append(asked, cmd), "branch",
                         <<"Deleted branch", got.value>>)
           ELSE Failed(op, Append(asked, cmd))
    /\ FlowFrame

\* interactive_rename_branch on the line typed at "Rename current branch",
\* the token typed at the selection if that was declined, and the new name
interactive_rename_branch(answer, listing, tok, typed, git_ok) ==
    /\ pc = "menu"
    /\ LET op == "interactive_rename_branch"
           current == confirm(answer, TRUE)
           got == get_choice(tok, listing, "")
           branch_to_rename == IF current THEN current_branch ELSE got.value
           asked == IF current THEN <<ShowCurrent, Confirm(answer)>>
                    ELSE <<ShowCurrent, Confirm(answer), GitBranch>>
           new_name == get_input(typed, <<>>)
           cmd == Git(<<"git", "branch", "-m">>, "",
                      <<branch_to_rename, new_name>>)
       IN  IF ~current /\ got.kind = "again"
           THEN UNCHANGED <<last_call, git_calls, history, history_file,
                            added>>
           ELSE IF new_name = <<>> THEN Quiet(op, asked)
           ELSE IF ~validate_branch_name(new_name)
           THEN /\ last_call' = Flow(op, "none", "none",
                                     print_message(process,
                                         "Invalid branch name").printed,
                                     asked)
                /\ UNCHANGED <<git_calls, history, history_file, added>>
           ELSE IF git_ok
           THEN Recorded(op, Append(asked, cmd), "branch",
                         <<"Renamed", branch_to_rename, new_name>>)
           ELSE Failed(op, Append(asked, cmd))
    /\ FlowFrame

\* interactive_change_remote_url on the token typed at the selection and the
\* line typed at "New URL"
interactive_change_remote_url(tok, typed_url, git_ok) ==
    /\ pc = "menu"
    /\ LET op == "interactive_change_remote_url"
           got == get_choice(tok, get_remotes, "")
           new_url == get_input(typed_url, <<>>)
           asked == <<GitRemote,
                      Query(<<"git", "remote", "get-url", got.value>>)>>
           cmd == Git(<<"git", "remote", "set-url">>, got.value, <<new_url>>)
       IN  IF get_remotes = <<>> THEN Quiet(op, <<GitRemote>>)
           ELSE IF got.kind = "again"
           THEN UNCHANGED <<last_call, git_calls, history, history_file,
                            added>>
           ELSE IF new_url = <<>> THEN Quiet(op, asked)
           ELSE IF ~validate_url(new_url)
           THEN /\ last_call' = Flow(op, "none", "none",
                                     print_message(process,
                                         "Invalid URL format").printed,
                                     asked)
                /\ UNCHANGED <<git_calls, history, history_file, added>>
           ELSE IF git_ok THEN Quiet(op, Append(asked, cmd))
           ELSE Failed(op, Append(asked, cmd))
    /\ FlowFrame

\* interactive_clone on the lines typed at "Repository URL", "Directory
\* name" and "Change to cloned directory?"
interactive_clone(typed_url, typed_dir, answer, git_ok, chdir_ok) ==
    /\ pc = "menu"
    /\ LET op == "interactive_clone"
           url == get_input(typed_url, <<>>)
           directory == get_input(typed_dir, <<>>)
           cmd == Git(<<"git", "clone">>, "",
                      IF directory # <<>> THEN <<url, directory>>
                      ELSE <<url>>)
       IN  IF url = <<>> THEN Quiet(op, <<>>)
           ELSE IF ~validate_url(url)
           THEN /\ last_call' = Flow(op, "none", "none",
                                     print_message(process,
                                         "Invalid URL format").printed,
                                     <<>>)
                /\ UNCHANGED <<git_calls, history, history_file, added>>
           ELSE IF ~git_ok THEN Failed(op, <<cmd>>)
           ELSE /\ git_calls' = Append(git_calls, cmd.git)
                /\ \E w \in WriteOutcomes :
                     /\ add_to_history("clone", <<"Cloned", url>>, w)
                     /\ last_call' =
                          IF directory = <<>>
                          THEN Flow(op, "none", w, <<>>, <<cmd>>)
                          ELSE Flow(op, "none", w,
                                    IF confirm(answer, TRUE) /\ ~chdir_ok
                                    THEN print_message(process,
                                             "Could not change directory")
                                             .printed
                                    ELSE <<>>,
                                    <<cmd, Confirm(answer)>>)
    /\ FlowFrame

\* interactive_init on the lines typed at its two confirmations and at
\* "Remote URL"; `git remote add origin` fails if origin exists
interactive_init(answer, init_ok, add_answer, typed_url, add_ok) ==
    /\ pc = "menu"
    /\ LET op == "interactive_init"
           init == <<Confirm(answer), Git(<<"git", "init">>, "", <<>>)>>
           identity ==
               IF config.name # <<>> /\ config.email # <<>>
               THEN <<Git(<<"git", "config", "user.name">>, "",
                          <<config.name>>),
                      Git(<<"git", "config", "user.email">>, "",
                          <<config.email>>)>>
               ELSE <<>>
           remote_url == get_input(typed_url, <<>>)
           asked == init \o identity \o <<Confirm(add_answer)>>
           cmd == Git(<<"git", "remote", "add">>, "origin", <<remote_url>>)
           exists == \E i \in DOMAIN git_remotes : git_remotes[i] = "origin"
           adding == /\ confirm(add_answer, FALSE)
                     /\ remote_url # <<>>
                     /\ validate_url(remote_url)
           events == IF adding THEN Append(asked, cmd) ELSE asked
       IN  IF ~confirm(answer, TRUE)
           THEN /\ Quiet(op, <<Confirm(answer)>>)
                /\ UNCHANGED <<config, config_file, gitVars>>
           ELSE IF ~init_ok
           THEN /\ Failed(op, init)
                /\ UNCHANGED <<config, config_file, gitVars>>
           ELSE /\ git_calls' = git_calls \o Commands(events)
                /\ current_branch' = current_branch
                /\ \E wc \in WriteOutcomes, wh \in WriteOutcomes :
                     /\ add_to_history("init", <<"Initialized repository">>,
                                       wh)
                     /\ IF adding /\ add_ok /\ ~exists
                        THEN /\ git_remotes' = Append(git_remotes, "origin")
                             /\ config' = [config EXCEPT
                                              !.default_remote = "origin"]
                             /\ save_config(wc)
                             /\ last_call' =
                                  Flow(op, wc, wh,
                                       save_config_report(process, wc)
                                           .printed, events)
                        ELSE /\ wc = "ok"
                             /\ last_call' =
                                  Flow(op, "none", wh,
                                       IF adding
                                       THEN print_message(process,
                                                "Git command failed").printed
                                       ELSE <<>>,
                                       IF adding THEN FailedLast(events)
                                       ELSE events)
                             /\ UNCHANGED <<config, config_file, git_remotes>>
    /\ UNCHANGED <<process, pc, requestVars, dispatchVars>>

\* interactive_undo_commit_soft on the line typed at its confirmation
interactive_undo_commit_soft(answer, git_ok) ==
    /\ pc = "menu"
    /\ LET op == "interactive_undo_commit_soft"
           events == <<Confirm(answer),
                       Git(<<"git", "reset", "--soft", "HEAD~1">>, "", <<>>)>>
       IN  IF ~confirm(answer, FALSE) THEN Quiet(op, <<Confirm(answer)>>)
           ELSE IF git_ok
           THEN Recorded(op, events, "undo", <<"Soft reset last commit">>)
           ELSE Failed(op, events)
    /\ FlowFrame

\* interactive_undo_commit_hard on the lines typed at its two confirmations
interactive_undo_commit_hard(answer, last_chance, git_ok) ==
    /\ pc = "menu"
    /\ LET op == "interactive_undo_commit_hard"
           events == <<Confirm(answer), Confirm(last_chance),
                       Git(<<"git", "reset", "--hard", "HEAD~1">>, "", <<>>)>>
       IN  IF ~confirm(answer, FALSE) THEN Quiet(op, <<Confirm(answer)>>)
           ELSE IF ~confirm(last_chance, FALSE)
           THEN Quiet(op, <<Confirm(answer), Confirm(last_chance)>>)
           ELSE IF git_ok
           THEN Recorded(op, events, "undo", <<"Hard reset last commit">>)
           ELSE Failed(op, events)
    /\ FlowFrame

\* the flag interactive_reset_to_commit derives from the reset type chosen
ResetFlags == <<"--soft", "--mixed", "--hard">>

\* interactive_reset_to_commit on the line typed at "commit hash", the token
\* typed at "Reset type" and the line typed at "Proceed?"
interactive_reset_to_commit(typed, tok, answer, git_ok) ==
    /\ pc = "menu"
    /\ LET op == "interactive_reset_to_commit"
           log == Query(<<"git", "log", "--oneline", "-10">>)
           commit_hash == get_input(typed, <<>>)
           got == get_choice(tok, ResetFlags, "")
           events == <<log, Confirm(answer),
                       Git(<<"git", "reset", got.value>>, "",
                           <<commit_hash>>)>>
       IN  IF commit_hash = <<>> THEN Quiet(op, <<log>>)
           ELSE IF got.kind = "again"
           THEN UNCHANGED <<last_call, git_calls, history, history_file,
                            added>>
           ELSE IF ~confirm(answer, FALSE)
           THEN Quiet(op, <<log, Confirm(answer)>>)
           ELSE IF git_ok
           THEN Recorded(op, events, "undo", <<"Reset to", commit_hash>>)
           ELSE Failed(op, events)
    /\ FlowFrame

\* what `git stash list` can print, as lines
StashListings ==
    { <<>>, << <<"s", "0", ":", "w">>, <<"s", "1", ":", "x">> >> }

RECURSIVE BeforeColon(_)
\* stash.split(':')[0]
BeforeColon(line) ==
    IF line = <<>> \/ Head(line) = ":" THEN <<>>
    ELSE <<Head(line)>> \o BeforeColon(Tail(line))

StashList == Query(<<"git", "stash", "list">>)

\* interactive_stash_drop on the output of `git stash list`, the token typed
\* at the selection and the line typed at the confirmation
interactive_stash_drop(stashes, tok, answer, git_ok) ==
    /\ pc = "menu"
    /\ LET op == "interactive_stash_drop"
           got == get_choice(tok, stashes, "")
           stash_id == BeforeColon(got.value)
           events == <<StashList, Confirm(answer),
                       Git(<<"git", "stash", "drop">>, "", <<stash_id>>)>>
       IN  IF stashes = <<>> THEN Quiet(op, <<StashList>>)
           ELSE IF got.kind = "again"
           THEN UNCHANGED <<last_call, git_calls, history, history_file,
                            added>>
           ELSE IF ~confirm(answer, FALSE)
           THEN Quiet(op, <<StashList, Confirm(answer)>>)
           ELSE IF git_ok THEN Quiet(op, events)
           ELSE Failed(op, events)
    /\ FlowFrame

\* interactive_stash_clear on the output of `git stash list` and the line
\* typed at the confirmation
interactive_stash_clear(stashes, answer, git_ok) ==
    /\ pc = "menu"
    /\ LET op == "interactive_stash_clear"
           events == <<StashList, Confirm(answer),
                       Git(<<"git", "stash", "clear">>, "", <<>>)>>
       IN  IF stashes = <<>> THEN Quiet(op, <<StashList>>)
           ELSE IF ~confirm(answer, FALSE)
           THEN Quiet(op, <<StashList, Confirm(answer)>>)
           ELSE IF git_ok THEN Quiet(op, events)
           ELSE Failed(op, events)
    /\ FlowFrame

\* interactive_tag_create on the lines typed at "Tag name", "Tag message"
\* and "Push tag to remote?" and the token typed at "Select remote"
interactive_tag_create(typed, typed_message, git_ok, answer, tok, push_ok) ==
    /\ pc = "menu"
    /\ LET op == "interactive_tag_create"
           tag_name == get_input(typed, <<>>)
           message == get_input(typed_message, <<>>)
           cmd == IF message # <<>>
                  THEN Git(<<"git", "tag", "-a", "-m">>, "",
                           <<tag_name, message>>)
                  ELSE Git(<<"git", "tag">>, "", <<tag_name>>)
           got == get_choice(tok, get_remotes, config.default_remote)
           push == Git(<<"git", "push">>, got.value, <<tag_name>>)
           description == <<"Created tag", tag_name>>
       IN  IF tag_name = <<>> THEN Quiet(op, <<>>)
           ELSE IF ~git_ok THEN Failed(op, <<cmd>>)
           ELSE IF ~confirm(answer, FALSE)
           THEN Recorded(op, <<cmd, Confirm(answer)>>, "tag", description)
           ELSE IF get_remotes = <<>>
           THEN Recorded(op, <<cmd, Confirm(answer), GitRemote>>, "tag",
                         description)
           ELSE IF got.kind = "again"
           THEN UNCHANGED <<last_call, git_calls, history, history_file,
                            added>>
           ELSE /\ git_calls' = git_calls \o <<cmd.git, push.git>>
                /\ \E w \in WriteOutcomes :
                     /\ add_to_history("tag", description, w)
                     /\ last_call' =
                          IF push_ok
                          THEN Flow(op, "none", w, <<>>,
                                    <<cmd, Confirm(answer), GitRemote, push>>)
                          ELSE Flow(op, "none", w,
                                    print_message(process,
                                        "Git command failed").printed,
                                    FailedLast(<<cmd, Confirm(answer),
                                                 GitRemote, push>>))
    /\ FlowFrame

GitTag == Query(<<"git", "tag">>)

\* interactive_tag_delete on the output of `git tag`, the token typed at the
\* selection, the lines typed at its two confirmations and the token typed at
\* "Select remote"
interactive_tag_delete(tags, pick, answer, git_ok, again, tok, push_ok) ==
    /\ pc = "menu"
    /\ LET op == "interactive_tag_delete"
           chosen == get_choice(pick, tags, "")
           cmd == Git(<<"git", "tag", "-d">>, "", <<chosen.value>>)
           asked == <<GitTag, Confirm(answer)>>
           deleted == <<GitTag, Confirm(answer), cmd,
                        Confirm(again)>>
           got == get_choice(tok, get_remotes, config.default_remote)
           push == Git(<<"git", "push", "--delete">>, got.value,
                       <<chosen.value>>)
       IN  IF tags = <<>> THEN Quiet(op, <<GitTag>>)
           ELSE IF chosen.kind = "again"
           THEN UNCHANGED <<last_call, git_calls, history, history_file,
                            added>>
           ELSE IF ~confirm(answer, FALSE) THEN Quiet(op, asked)
           ELSE IF ~git_ok THEN Failed(op, Append(asked, cmd))
           ELSE IF ~confirm(again, FALSE) THEN Quiet(op, deleted)
           ELSE IF get_remotes = <<>>
           THEN Quiet(op, Append(deleted, GitRemote))
           ELSE IF got.kind = "again"
           THEN UNCHANGED <<last_call, git_calls, history, history_file,
                            added>>
           ELSE IF push_ok THEN Quiet(op, deleted \o <<GitRemote, push>>)
           ELSE Failed(op, deleted \o <<GitRemote, push>>)
    /\ FlowFrame

\* interactive_tag_push on the token typed at "Select remote" and the line
\* typed at "Push all tags?"
interactive_tag_push(tok, answer, git_ok) ==
    /\ pc = "menu"
    /\ LET op == "interactive_tag_push"
           got == get_choice(tok, get_remotes, config.default_remote)
           events == <<GitRemote, Confirm(answer),
                       Git(<<"git", "push", "--tags">>, got.value, <<>>)>>
       IN  IF get_remotes = <<>>
           THEN /\ last_call' = Flow(op, "none", "none",
                                     print_message(process,
                                         "No remotes configured").printed,
                                     <<GitRemote>>)
                /\ UNCHANGED <<git_calls, history, history_file, added>>
           ELSE IF got.kind = "again"
           THEN UNCHANGED <<last_call, git_calls, history, history_file,
                            added>>
           ELSE IF ~confirm(answer, TRUE)
           THEN Quiet(op, <<GitRemote, Confirm(answer)>>)
           ELSE IF git_ok THEN Quiet(op, events)
           ELSE Failed(op, events)
    /\ FlowFrame

\* interactive_fetch on the token typed at "Select remote to fetch from"
interactive_fetch(tok, git_ok) ==
    /\ pc = "menu"
    /\ LET op == "interactive_fetch"
           got == get_choice(tok, get_remotes, config.default_remote)
           events == <<GitRemote, Git(<<"git", "fetch">>, got.value, <<>>)>>
       IN  IF get_remotes = <<>>
           THEN /\ last_call' = Flow(op, "none", "none",
                                     print_message(process,
                                         "No remotes configured").printed,
                                     <<GitRemote>>)
                /\ UNCHANGED <<git_calls, history, history_file, added>>
           ELSE IF got.kind = "again"
           THEN UNCHANGED <<last_call, git_calls, history, history_file,
                            added>>
           ELSE IF git_ok
           THEN Recorded(op, events, "fetch", <<"Fetched from", got.value>>)
           ELSE Failed(op, events)
    /\ FlowFrame

\* an interactive_sync that goes on after a failed command
interactive_sync_GoesOn(typed, tok, fetch_ok, pull_ok, push_ok) ==
    /\ pc = "menu"
    /\ LET op == "interactive_sync"
           sync_branch == get_input(typed, IF current_branch # <<>>
                                           THEN current_branch
                                           ELSE config.default_branch)
           got == get_choice(tok, get_remotes, get_remotes[1])
           fetch == Git(<<"git", "fetch">>, got.value, <<>>)
           pull == Git(<<"git", "pull">>, got.value, <<sync_branch>>)
           events == <<ShowCurrent, GitRemote,
                       [fetch EXCEPT !.ok = fetch_ok],
                       [pull EXCEPT !.ok = pull_ok],
                       Git(<<"git", "push">>, got.value, <<sync_branch>>)>>
       IN  /\ get_remotes # <<>>
           /\ got.kind = "value"
           /\ IF push_ok
              THEN Recorded(op, events, "sync",
                            <<"Synced", sync_branch, got.value>>)
              ELSE Failed(op, events)
    /\ FlowFrame

\* interactive_sync on the line typed at "Branch to sync" and the token typed
\* at "Select remote for sync"
interactive_sync(typed, tok, fetch_ok, pull_ok, push_ok) ==
    /\ pc = "menu"
    /\ LET op == "interactive_sync"
           sync_branch == get_input(typed, IF current_branch # <<>>
                                           THEN current_branch
                                           ELSE config.default_branch)
           known == \E i \in DOMAIN get_remotes :
                       get_remotes[i] = config.default_remote
           default_remote == IF known THEN config.default_remote
                             ELSE get_remotes[1]
           got == get_choice(tok, get_remotes, default_remote)
           fetch == <<ShowCurrent, GitRemote,
                      Git(<<"git", "fetch">>, got.value, <<>>)>>
           pull == Append(fetch, Git(<<"git", "pull">>, got.value,
                                     <<sync_branch>>))
           push == Append(pull, Git(<<"git", "push">>, got.value,
                                    <<sync_branch>>))
       IN  IF get_remotes = <<>>
           THEN /\ last_call' = Flow(op, "none", "none",
                                     print_message(process,
                                         "No remotes configured").printed,
                                     <<ShowCurrent, GitRemote>>)
                /\ UNCHANGED <<git_calls, history, history_file, added>>
           ELSE IF got.kind = "again"
           THEN UNCHANGED <<last_call, git_calls, history, history_file,
                            added>>
           ELSE IF ~fetch_ok THEN Failed(op, fetch)
           ELSE IF ~pull_ok THEN Failed(op, pull)
           ELSE IF ~push_ok THEN Failed(op, push)
           ELSE Recorded(op, push, "sync",
                         <<"Synced", sync_branch, got.value>>)
    /\ FlowFrame

\* lines typed at a confirmation and tokens typed at a selection
FlowAnswers == { <<>>, <<"Y">>, <<"n">> }
FlowTokens == {"", "1", "2"}

\* the wrapper at its menu, in a repository with no remote, with one that is
\* not the configured default, or with two
InitFlows ==
    /\ config = load_config(Absent)
    /\ config_file = Absent
    /\ history_file = Absent
    /\ history = load_history(history_file)
    /\ git_remotes \in { <<>>, <<"upstream">>, <<"origin", "upstream">> }
    /\ current_branch = Empty
    /\ pc = "menu"
    /\ IdleDispatch
    /\ added = <<>>
    /\ last_call = NoCall
    /\ git_calls = <<>>
    /\ process = Constructed(<<>>)

\* A handler that issued no command has changed neither the repository nor
\* the configuration nor the history: what can follow it is what could
\* follow the state before it, and is explored from there.
NextFlows ==
    /\ Len(git_calls) < MaxCalls
    /\ IF last_call = NoCall THEN TRUE
       ELSE Commands(last_call.events) # <<>>
    /\ \/ \E typed \in TypedNewNames, git_ok \in BOOLEAN :
            interactive_create_branch(typed, git_ok)
       \/ \E listing \in Listings, tok \in FlowTokens,
            answer \in FlowAnswers, git_ok \in BOOLEAN :
            interactive_delete_branch(listing, tok, answer, git_ok)
       \/ \E answer \in FlowAnswers, listing \in Listings,
            tok \in FlowTokens, typed \in TypedNewNames,
            git_ok \in BOOLEAN :
            interactive_rename_branch(answer, listing, tok, typed, git_ok)
       \/ \E typed_name \in TypedNames, typed_url \in TypedUrls,
            git_ok \in BOOLEAN :
            interactive_add_remote(typed_name, typed_url, git_ok)
       \/ \E tok \in FlowTokens, answer \in FlowAnswers,
            git_ok \in BOOLEAN :
            interactive_remove_remote(tok, answer, git_ok)
       \/ \E tok \in FlowTokens, typed_url \in TypedUrls,
            git_ok \in BOOLEAN :
            interactive_change_remote_url(tok, typed_url, git_ok)
       \/ \E typed_url \in TypedUrls, typed_dir \in TypedValues,
            answer \in FlowAnswers, git_ok \in BOOLEAN,
            chdir_ok \in BOOLEAN :
            interactive_clone(typed_url, typed_dir, answer, git_ok, chdir_ok)
       \/ \E answer \in FlowAnswers, init_ok \in BOOLEAN,
            add_answer \in FlowAnswers, typed_url \in TypedUrls,
            add_ok \in BOOLEAN :
            interactive_init(answer, init_ok, add_answer, typed_url, add_ok)
       \/ \E answer \in FlowAnswers, git_ok \in BOOLEAN :
            interactive_undo_commit_soft(answer, git_ok)
       \/ \E answer \in FlowAnswers, last_chance \in FlowAnswers,
            git_ok \in BOOLEAN :
            interactive_undo_commit_hard(answer, last_chance, git_ok)
       \/ \E typed \in TypedValues, tok \in FlowTokens,
            answer \in FlowAnswers, git_ok \in BOOLEAN :
            interactive_reset_to_commit(typed, tok, answer, git_ok)
       \/ \E stashes \in StashListings, tok \in FlowTokens,
            answer \in FlowAnswers, git_ok \in BOOLEAN :
            interactive_stash_drop(stashes, tok, answer, git_ok)
       \/ \E stashes \in StashListings, answer \in FlowAnswers,
            git_ok \in BOOLEAN :
            interactive_stash_clear(stashes, answer, git_ok)
       \/ \E typed \in TypedNewNames, typed_message \in TypedValues,
            git_ok \in BOOLEAN, answer \in FlowAnswers,
            tok \in FlowTokens, push_ok \in BOOLEAN :
            interactive_tag_create(typed, typed_message, git_ok, answer, tok,
                                   push_ok)
       \/ \E tag_list \in Listings, tag_tok \in FlowTokens,
            answer \in FlowAnswers, git_ok \in BOOLEAN,
            remote_answer \in FlowAnswers, tok \in FlowTokens,
            push_ok \in BOOLEAN :
            interactive_tag_delete(tag_list, tag_tok, answer, git_ok,
                                   remote_answer, tok, push_ok)
       \/ \E tok \in FlowTokens, answer \in FlowAnswers,
            git_ok \in BOOLEAN :
            interactive_tag_push(tok, answer, git_ok)
       \/ \E tok \in FlowTokens, git_ok \in BOOLEAN :
            interactive_fetch(tok, git_ok)
       \/ \E typed \in TypedValues, tok \in FlowTokens,
            fetch_ok \in BOOLEAN, pull_ok \in BOOLEAN, push_ok \in BOOLEAN :
            interactive_sync(typed, tok, fetch_ok, pull_ok, push_ok)

SpecFlows == InitFlows /\ [][NextFlows]_vars

\* the wrapper at its menu in a repository without remotes
InitRemotes ==
    /\ config = load_config(Absent)
    /\ config_file = Absent
    /\ history_file = Absent
    /\ history = load_history(history_file)
    /\ git_remotes = <<>>
    /\ current_branch = Empty
    /\ pc = "menu"
    /\ IdleDispatch
    /\ added = <<>>
    /\ last_call = NoCall
    /\ git_calls = <<>>
    /\ process = Constructed(<<>>)

\* the Remote Management menu: add, remove, set default
NextRemotes ==
    \/ \E tok \in ChoiceTokens :
         interactive_set_default_remote("interactive_set_default_remote",
                                        TRUE, tok)
    \/ /\ Len(git_calls) < MaxRemoteOps
       /\ \E typed_name \in TypedNames, typed_url \in TypedUrls,
             git_ok \in BOOLEAN :
            interactive_add_remote(typed_name, typed_url, git_ok)
    \/ /\ Len(git_calls) < MaxRemoteOps
       /\ \E tok \in ChoiceTokens, answer \in TypedAnswers,
             git_ok \in BOOLEAN :
            interactive_remove_remote(tok, answer, git_ok)

SpecRemotes == InitRemotes /\ [][NextRemotes]_vars

\* configuration files the wrapper is pointed at (test_config.py sets
\* wrapper.config_file after the construction)
TestConfigFiles ==
    {Absent, Corrupt, Undecodable, Holding([parallel_push |-> FALSE])}

\* a constructed wrapper in its menus
InitConfig ==
    /\ config = load_config(Absent)
    /\ config_file \in TestConfigFiles
    /\ history_file = Absent
    /\ history = load_history(history_file)
    /\ git_remotes \in {SubSeq(RemoteNames, 1, n) : n \in {0, 2}}
    /\ current_branch = Empty
    /\ pc = "menu"
    /\ IdleDispatch
    /\ added = <<>>
    /\ last_call = NoCall
    /\ git_calls = <<>>
    /\ process = Constructed(<<>>)

NextConfig ==
    \/ LoadConfig
    \/ \E key \in ToggleKeys : toggle_config(key)
    \/ \E typed \in TypedValues : update_config("name", typed)
    \/ \E tok \in ChoiceTokens :
         interactive_set_default_remote("interactive_set_default_remote",
                                        TRUE, tok)
    \/ \E tok \in ChoiceTokens, is_repo \in BOOLEAN :
         interactive_set_default_remote(
             "interactive_set_default_remote_config", is_repo, tok)
    \/ /\ Len(git_calls) < MaxCalls
       /\ \E typed_name \in TypedNames, typed_url \in TypedUrls,
             git_ok \in BOOLEAN :
            interactive_add_remote(typed_name, typed_url, git_ok)
    \/ /\ Len(git_calls) < MaxCalls
       /\ \E tok \in ChoiceTokens, answer \in TypedAnswers,
             git_ok \in BOOLEAN :
            interactive_remove_remote(tok, answer, git_ok)

SpecConfig == InitConfig /\ [][NextConfig]_vars

\* ------------------------------------------------- startup and commands

GitVersion == <<"git", "--version">>

\* what subprocess.run(cmd, check=True) of a git command ends with: the
\* exit of the subprocess, or an OSError because it could not be started
ExitCodes == {0, 1, 128}

ProcessResults ==
    [kind : {"exit"}, code : ExitCodes,
     stdout : {<<>>, <<" ", "d", "e", "v", "\n">>},
     stderr : {<<>>, <<"e", "r", "r">>}]
    \cup {[kind |-> "oserror", code |-> 0, stdout |-> <<>>, stderr |-> <<>>]}

\* capture_output=True; show_output=True; show_output=False
Modes == {"capture", "stream", "silent"}

\* a run_git_command whose subprocess.run does not check the exit status
run_git_command_Unchecked(how, result, proc) ==
    IF result.kind = "oserror"
    THEN [kind |-> "raise", value |-> FALSE, printed |-> <<>>]
    ELSE IF how = "capture"
    THEN [kind |-> "text", value |-> Strip(result.stdout), printed |-> <<>>]
    ELSE [kind |-> "bool", value |-> TRUE, printed |-> <<>>]

\* run_git_command(cmd, capture_output, show_output): what it returns (a
\* bool or a text) or that an exception leaves it, and the errors it prints;
\* stderr is captured in the modes "capture" and "silent" only
run_git_command(how, result, proc) ==
    IF result.kind = "oserror"
    THEN [kind |-> "raise", value |-> FALSE, printed |-> <<>>]
    ELSE IF result.code = 0
    THEN (IF how = "capture"
          THEN [kind |-> "text", value |-> Strip(result.stdout),
                printed |-> <<>>]
          ELSE [kind |-> "bool", value |-> TRUE, printed |-> <<>>])
    ELSE [kind |-> "bool", value |-> FALSE,
          printed |-> print_message(proc, "Git command failed").printed
                      \o (IF how # "stream" /\ result.stderr # <<>>
                          THEN <<"Details">> ELSE <<>>)]

\* the keys of the handlers dict of main
handlers ==
    { <<"s", "t", "a", "t", "u", "s">>, <<"a", "d", "d">>,
      <<"c", "o", "m", "m", "i", "t">>, <<"s", "y", "n", "c">>,
      <<"p", "u", "s", "h">>, <<"c", "o", "n", "f", "i", "g">>,
      <<"s", "t", "a", "s", "h">>, <<"t", "a", "g">>, <<"u", "n", "d", "o">>,
      <<"h", "i", "s", "t", "o", "r", "y">> }

\* sys.argv[1] of the process (<<>> when gw is started without arguments)
Arguments ==
    { <<>>, <<"s", "y", "n", "c">>, <<"S", "Y", "N", "C">>,
      <<"p", "u", "s", "h">>, <<"s", "y", "n">> }

\* the configuration and history files the process may find in the home
\* directory
StartFiles == {Absent, Corrupt, Undecodable}

\* the process is started; no wrapper exists yet
InitMain ==
    /\ config_file \in StartFiles \cup ConfigFiles
    /\ config = DefaultConfig
    /\ history_file \in StartFiles
    /\ history = <<>>
    /\ git_remotes = <<>>
    /\ current_branch = Empty
    /\ pc = "start"
    /\ IdleDispatch
    /\ added = <<>>
    /\ last_call = NoCall
    /\ git_calls = <<>>
    /\ \E git \in {"ok", "missing", "fails"}, argv \in Arguments :
         process = Process(git, argv, "unset", "running", FALSE)

\* InteractiveGitWrapper(): load_config, load_history, check_git_available
\* and the assignment of colors_enabled; an exception that leaves __init__
\* leaves main, and the interpreter ends the process with status 1
Construct ==
    /\ pc = "start"
    /\ config' = load_config(config_file)
    /\ IF load_raises(config_file)
       THEN /\ history' = history
            /\ git_calls' = git_calls
            /\ process' = [process EXCEPT !.exit = "1", !.traceback = TRUE]
            /\ last_call' = Call("__init__", "none", "none", <<>>, TRUE)
            /\ pc' = "exited"
       ELSE /\ history' = load_history(history_file)
            /\ IF load_raises(history_file)
               THEN /\ git_calls' = git_calls
                    /\ process' = [process EXCEPT !.exit = "1",
                                                  !.traceback = TRUE]
                    /\ last_call' = Call("__init__", "none", "none", <<>>,
                                         TRUE)
                    /\ pc' = "exited"
               ELSE /\ git_calls' = Append(git_calls, GitVersion)
                    /\ IF process.git = "ok"
                       THEN /\ \E enabled \in {"on", "off"} :
                                 process' = [process EXCEPT
                                                !.colors_enabled = enabled]
                            /\ last_call' = Call("__init__", "none", "none",
                                                 <<>>, FALSE)
                            /\ pc' = "constructed"
                       ELSE LET said ==
                                    print_message(process,
                                        "Git is not installed or not available in PATH")
                            IN  /\ process' = [process EXCEPT
                                                  !.exit = "1",
                                                  !.traceback = said.raised]
                                /\ last_call' = Call("__init__", "none",
                                                     "none", said.printed,
                                                     said.raised)
                                /\ pc' = "exited"
    /\ UNCHANGED <<config_file, history_file, gitVars, added, requestVars,
                   dispatchVars>>

\* main once the wrapper is constructed: the handler of the subcommand, the
\* main menu, or the message for an unknown subcommand, after which main
\* returns
MainDispatch ==
    /\ pc = "constructed"
    /\ LET command == Lower(process.argv)
       IN  IF process.argv = <<>>
           THEN /\ pc' = "menu"
                /\ last_call' = Call("main", "none", "none", <<>>, FALSE)
                /\ process' = process
           ELSE IF command \in handlers
           THEN /\ pc' = "handler"
                /\ last_call' = Call("main", "none", "none", <<>>, FALSE)
                /\ process' = process
           ELSE /\ pc' = "exited"
                /\ last_call' = Call("main", "none", "none",
                                     <<"Unknown command",
                                       "Available commands">>, FALSE)
                /\ process' = [process EXCEPT !.exit = "0"]
    /\ UNCHANGED <<persistVars, gitVars, added, git_calls, requestVars,
                   dispatchVars>>

\* the main menu or a handler calls run_git_command; an exception it lets
\* through ends the process
RunGitCommand ==
    /\ pc \in {"menu", "handler"}
    /\ Len(git_calls) <= MaxCalls
    /\ \E how \in Modes, result \in ProcessResults :
         LET ret == run_git_command(how, result, process)
         IN  /\ git_calls' = Append(git_calls, <<"git", "command">>)
             /\ last_call' = [op |-> "run_git_command",
                              config_write |-> "none",
                              history_write |-> "none",
                              printed |-> ret.printed,
                              raised |-> ret.kind = "raise",
                              mode |-> how, result |-> result, ret |-> ret]
             /\ pc' = IF ret.kind = "raise" THEN "exited" ELSE pc
             /\ process' = IF ret.kind = "raise"
                           THEN [process EXCEPT !.exit = "1",
                                                !.traceback = TRUE]
                           ELSE process
    /\ UNCHANGED <<persistVars, gitVars, added, requestVars, dispatchVars>>

NextMain ==
    \/ Construct
    \/ MainDispatch
    \/ RunGitCommand

SpecMain == InitMain /\ [][NextMain]_vars

\* what the checked branch names are made of: a letter, a slash, each
\* whitespace character, each character and ending the rules name
NamePieces ==
    { <<"a">>, <<"/">>, <<" ">>, <<"\t">>, <<"\n">>, <<"~">>, <<"^">>,
      <<":">>, <<"?">>, <<"*">>, <<"[">>, <<"\\">>, <<"-">>, <<".">>,
      <<".", "l", "o", "c", "k">> }

RECURSIVE NamesOf(_)
\* the names made of at most n pieces
NamesOf(n) ==
    IF n = 0 THEN {<<>>}
    ELSE NamesOf(n - 1)
         \cup {name \o piece : name \in NamesOf(n - 1), piece \in NamePieces}

\* a name about to be passed to validate_branch_name
InitValidate ==
    /\ branch \in NamesOf(MaxPieces)
    /\ pc = "validate"
    /\ config = load_config(Absent)
    /\ config_file = Absent
    /\ history_file = Absent
    /\ history = load_history(history_file)
    /\ git_remotes = <<>>
    /\ current_branch = Empty
    /\ remotes = <<>>
    /\ results = <<>>
    /\ mode = "none"
    /\ seq = SeqIdle
    /\ par = ParIdle
    /\ push_calls = <<>>
    /\ out = <<>>
    /\ added = <<>>
    /\ last_call = NoCall
    /\ git_calls = <<>>
    /\ process = Constructed(<<>>)

\* the call validate_branch_name(branch)
ValidateBranchName ==
    /\ pc = "validate"
    /\ pc' = "validated"
    /\ last_call' = [op |-> "validate_branch_name", config_write |-> "none",
                     history_write |-> "none", printed |-> <<>>,
                     raised |-> FALSE, ret |-> validate_branch_name(branch)]
    /\ UNCHANGED <<persistVars, gitVars, added, git_calls, process,
                   requestVars, dispatchVars>>

SpecValidate == InitValidate /\ [][ValidateBranchName]_vars

\* ================================================================ claims

\* number of entries of list q equal to x
Count(q, x) == Cardinality({i \in DOMAIN q : q[i] = x})

\* entries of the request whose outcome the sequential loop has recorded
SeqProcessed == {i \in DOMAIN remotes : seq.pc # "idle" /\ i < seq.i}

\* entries of the request whose push the sequential loop has started
SeqStarted ==
    {i \in DOMAIN remotes :
        seq.pc # "idle"
        /\ (i < seq.i \/ (i = seq.i /\ seq.pc \in {"running", "raised"}))}

\* entries whose future the as_completed loop has handled
ParProcessed == {i \in DOMAIN par.fut : par.fut[i] = "collected"}

\* entries whose push a pool thread has started
ParStarted ==
    {i \in DOMAIN par.fut : par.fut[i] \in {"running", "finished", "collected"}}

RECURSIVE FailedInRequestOrder(_, _, _)
\* the remotes of rs from entry i on whose push did not succeed, in the
\* order of rs
FailedInRequestOrder(rs, res, i) ==
    IF i > Len(rs) THEN <<>>
    ELSE (IF res[i] # "ok" THEN <<rs[i]>> ELSE <<>>)
         \o FailedInRequestOrder(rs, res, i + 1)

\* C1: every summary handed to _print_push_summary, by _push_sequential or
\* by _push_parallel, has success count + number of failed remotes = number
\* of remotes of the request.
C1_SummaryAddsUp ==
    \A k \in DOMAIN out :
        out[k].success + Len(out[k].failed) = Len(remotes)

\* C1 witness: a parallel dispatch printed a summary with successes and
\* failures
C1_Witness ==
    /\ mode = "parallel"
    /\ out # <<>>
    /\ out[1].success > 0
    /\ Len(out[1].failed) > 0

\* C2: the failed list of every summary names the failed remotes in the
\* order in which they stand in the list of remotes of the request.
C2_FailedInRequestOrder ==
    \A k \in DOMAIN out :
        out[k].failed = FailedInRequestOrder(remotes, results, 1)

\* C3: called with the same remotes and the same push results,
\* _push_sequential and _push_parallel hand the same values to
\* _print_push_summary.
C3_SameSummary ==
    Len(out) = 2 => out[1] = out[2]

\* C4: in every summary, total is the number of requested remotes, the
\* success count is the number of entries whose push succeeded, and the
\* failed list holds each remote as often as it has entries whose push did
\* not succeed (returned failure or, in the thread pool, raised).
C4_SummaryMatchesResults ==
    \A k \in DOMAIN out :
        /\ out[k].total = Len(remotes)
        /\ out[k].success =
               Cardinality({i \in DOMAIN remotes : results[i] = "ok"})
        /\ \A r \in {remotes[i] : i \in DOMAIN remotes} :
               Count(out[k].failed, r) =
                   Cardinality({i \in DOMAIN remotes :
                                   remotes[i] = r
                                   /\ results[i] \in {"fail", "raise"}})

\* C4 witness: origin=success, upstream=failure, mirror=success gave
\* total 3, succeeded 2, failed [upstream]
C4_Witness ==
    /\ remotes = <<"origin", "upstream", "mirror">>
    /\ results = <<"ok", "fail", "ok">>
    /\ out = <<Summary(2, 3, <<"upstream">>)>>

\* C5: at every point of a dispatch, in every interleaving of the pool
\* threads, the success counter and the failed list hold exactly one
\* outcome for each entry of the request handled so far (none lost, none
\* twice, each under its own remote), and when the summary is printed every
\* entry of the request has been handled.
C5_OneOutcomePerEntry ==
    /\ seq.success_count =
           Cardinality({i \in SeqProcessed : results[i] = "ok"})
    /\ par.success_count =
           Cardinality({i \in ParProcessed : results[i] = "ok"})
    /\ \A r \in {remotes[i] : i \in DOMAIN remotes} :
           /\ Count(seq.failed_remotes, r) =
                  Cardinality({i \in SeqProcessed :
                                  remotes[i] = r /\ results[i] # "ok"})
           /\ Count(par.failed_remotes, r) =
                  Cardinality({i \in ParProcessed :
                                  remotes[i] = r /\ results[i] # "ok"})
    /\ seq.pc = "done" => SeqProcessed = DOMAIN remotes
    /\ par.pc = "done" => ParProcessed = DOMAIN remotes

\* C5 witness: a parallel dispatch completed whose futures were handled in
\* another order than the request's
C5_Witness ==
    /\ par.pc = "done"
    /\ Len(remotes) >= 2
    /\ remotes[1] # remotes[2]
    /\ par.failed_remotes = <<remotes[2], remotes[1]>>

\* C6: _push_parallel is entered only for a request of more than one remote
\* with parallel_push enabled; a request of exactly one remote is executed
\* by _push_sequential, and _push_to_remotes would choose so for either
\* value of its parallel argument.
C6_ParallelOnlyWhenManyAndEnabled ==
    /\ (mode = "parallel" \/ par.pc # "idle") =>
           (Len(remotes) > 1 /\ config.parallel_push)
    /\ (mode # "none" /\ Len(remotes) = 1) =>
           (mode = "sequential" /\ par.pc = "idle" /\ seq.pc # "idle")
    /\ mode # "none" =>
           \A parallel \in BOOLEAN :
               PushMode(config, remotes, parallel) = "parallel" =>
                   (parallel /\ config.parallel_push /\ Len(remotes) > 1)

\* C6 witness: one remote was selected with parallel_push enabled and was
\* pushed by the sequential loop
C6_Witness ==
    /\ Len(remotes) = 1
    /\ config.parallel_push
    /\ seq.pc = "done"

\* C7: no `git push` is started with a branch name that
\* validate_branch_name rejects.
C7_NoPushOfInvalidBranch ==
    \A k \in DOMAIN push_calls : validate_branch_name(push_calls[k][2])

\* C8: the list of remotes of a dispatch never holds a remote name twice.
C8_NoDuplicateRemote ==
    \A i, j \in DOMAIN remotes : i # j => remotes[i] # remotes[j]

\* C9: a push that returns failure is recorded in the failed list, every
\* started entry of the request has been pushed exactly once (nothing is
\* pushed again), only an exception ever leaves the dispatch, and a printed
\* summary means the push of every entry was issued, in both modes.
C9_FailureRecordedNotRetriedNotAborting ==
    /\ Len(push_calls) = Cardinality(SeqStarted) + Cardinality(ParStarted)
    /\ \A i \in SeqProcessed :
           results[i] = "fail" => Count(seq.failed_remotes, remotes[i]) >= 1
    /\ \A i \in ParProcessed :
           results[i] = "fail" => Count(par.failed_remotes, remotes[i]) >= 1
    /\ seq.pc = "raised" => results[seq.i] = "raise"
    /\ out # <<>> =>
           /\ Len(push_calls) = Len(remotes)
           /\ \A j \in DOMAIN remotes : push_calls[j] = <<remotes[j], branch>>
           /\ SeqProcessed \cup ParProcessed = DOMAIN remotes

\* C9 witness: the sequential loop recorded the failure of its first remote
\* and went on to push the second one successfully
C9_Witness ==
    /\ mode = "sequential"
    /\ seq.pc = "done"
    /\ Len(remotes) >= 2
    /\ results[1] = "fail"
    /\ results[2] = "ok"
    /\ seq.failed_remotes = <<remotes[1]>>

\* C10: in the thread pool, a queued push can always still be started:
\* a thread is free, or some running push will exit.
C10_QueuedPushCanStart ==
    \A i \in DOMAIN par.fut :
        par.fut[i] = "queued" =>
            \/ Cardinality(Running(par)) < max_workers(remotes)
            \/ \E j \in Running(par) : results[j] # "hang"

\* C11: at every moment of a concurrent dispatch the number of push
\* subprocesses in flight is at most the smaller of the number of requested
\* remotes and 5; a queued push starts only when fewer are in flight.
C11_InFlightBounded ==
    mode = "parallel" =>
        Cardinality(Running(par)) <= Min(Len(remotes), PoolWorkers)

\* five pushes are in flight while a further one waits for a worker
C11_Witness ==
    /\ mode = "parallel"
    /\ Len(remotes) > PoolWorkers
    /\ Cardinality(Running(par)) = PoolWorkers
    /\ \E i \in DOMAIN par.fut : par.fut[i] = "queued"

\* pushes of the sequential loop that were started and whose outcome the
\* loop has not recorded
SeqInFlight ==
    Len(push_calls) - (seq.success_count + Len(seq.failed_remotes))

\* C12: in sequential mode the pushes are issued in exactly the order of
\* the list of remotes, the push of an entry is issued only once the outcome
\* of every earlier entry is recorded, and at most one push is in flight.
C12_SequentialInOrderOneAtATime ==
    mode = "sequential" /\ seq.pc # "idle" =>
        /\ Len(push_calls) = Cardinality(SeqStarted)
        /\ \A k \in DOMAIN push_calls : push_calls[k] = <<remotes[k], branch>>
        /\ SeqInFlight \in {0, 1}
        /\ SeqInFlight = 1 <=> seq.pc \in {"running", "raised"}
        /\ seq.success_count + Len(seq.failed_remotes) = seq.i - 1

\* the third push of a sequential dispatch is in flight, after a failure
C12_Witness ==
    /\ mode = "sequential"
    /\ seq.pc = "running"
    /\ Len(push_calls) = 3
    /\ seq.success_count = 1
    /\ Len(seq.failed_remotes) = 1

\* C13: an error of the push of one remote, a non-zero exit or an exception
\* raised while the push is executed, becomes a failed entry of the summary
\* and never leaves the dispatch as an exception, in sequential mode as in
\* parallel mode; the summary is still printed.
C13_ErrorNeverLeavesDispatch ==
    /\ seq.pc # "raised"
    /\ pc # "crashed"
    /\ \A k \in DOMAIN out :
         \A i \in DOMAIN remotes :
            results[i] \in {"fail", "raise"} =>
                \E j \in DOMAIN out[k].failed : out[k].failed[j] = remotes[i]

\* the last n entries of list q
LastOf(q, n) == SubSeq(q, Len(q) - n + 1, Len(q))

\* C14: for every max_history N >= 1, after each add_to_history call the
\* history in memory is exactly the last min(k, N) of the k entries added so
\* far, in insertion order, and the file a successful write leaves holds
\* exactly that list.
C14_HistoryIsLastEntries ==
    config.max_history >= 1 =>
        /\ history = LastOf(added, Min(Len(added), config.max_history))
        /\ last_call.op = "add_to_history" /\ last_call.history_write = "ok"
             => history_file = Holding(history)

\* max_history is 5 and command0..command9 were added: command5..command9
\* are kept and stored
C14_Witness ==
    /\ config.max_history = 5
    /\ Len(added) = 10
    /\ Len(history) = 5
    /\ history[1].command = <<"command", 5>>
    /\ history[5].command = <<"command", 9>>
    /\ history_file = Holding(history)

\* C15: when the configuration file is absent or cannot be parsed,
\* load_config does not fail and leaves exactly the hard-coded defaults in
\* memory, whatever the configuration in memory was before.
C15_LoadFallsBackToDefaults ==
    last_call.op = "load_config" /\ config_file.kind # "json" =>
        /\ ~last_call.raised
        /\ pc # "crashed"
        /\ config = DefaultConfig

\* the operations that assign to self.config
ConfigChangingOps ==
    {"toggle_config", "update_config", "interactive_set_default_remote",
     "interactive_set_default_remote_config", "interactive_add_remote",
     "interactive_remove_remote"}

\* C16: every operation that changes the configuration in memory saves it
\* in the same operation, and when that write succeeds a load_config of the
\* file gives the configuration in memory.
C16_ConfigSavedWithEveryChange ==
    [][last_call'.op \in ConfigChangingOps /\ config' # config =>
          /\ last_call'.config_write # "none"
          /\ last_call'.config_write = "ok" =>
                load_config(config_file') = config']_vars

\* the default remote was removed, the default moved to the remaining
\* remote, and the file holds the changed configuration
C16_Witness ==
    /\ last_call.op = "interactive_remove_remote"
    /\ last_call.config_write = "ok"
    /\ git_remotes = <<"upstream">>
    /\ config.default_remote = "upstream"
    /\ config # DefaultConfig
    /\ load_config(config_file) = config

\* the writes that ended with an IOError
FailedWrites == {"open_fails", "write_fails"}

\* C18: when the write of the configuration file or of the history file
\* fails, the failure is reported to the user, no exception leaves the
\* operation, and the change the operation made in memory is kept; for
\* save_config and for save_history alike.
C18_FailedWriteReported ==
    /\ last_call.config_write \in FailedWrites =>
          /\ \E i \in DOMAIN last_call.printed :
                last_call.printed[i] = "Could not save configuration"
          /\ ~last_call.raised
    /\ last_call.history_write \in FailedWrites =>
          /\ \E i \in DOMAIN last_call.printed :
                last_call.printed[i] # "Could not save configuration"
          /\ ~last_call.raised
          /\ history # <<>>
          /\ history[Len(history)] = added[Len(added)]

\* C17: a multi-remote push appends exactly one 'push' history entry, and
\* only once the dispatch is over (every remote has its outcome and the
\* summary is printed); the same add_to_history call writes the file, so
\* that a load_history of the written file gives the list with the entry.
C17_OneHistoryEntryAfterDispatch ==
    /\ Len(added) <= 1
    /\ pc = "done" /\ mode # "none" => Len(added) = 1
    /\ added # <<>> =>
          /\ added[1].command = "push"
          /\ history = added
          /\ Len(out) = 1
          /\ mode = "sequential" =>
                seq.pc = "done" /\ SeqProcessed = DOMAIN remotes
          /\ mode = "parallel" =>
                par.pc = "done" /\ ParProcessed = DOMAIN remotes
          /\ last_call.history_write = "ok" =>
                load_history(history_file) = history

\* a push to two remotes is over, its entry is in the list and in the file
C17_Witness ==
    /\ pc = "done"
    /\ Len(remotes) = 2
    /\ Len(added) = 1
    /\ last_call.op = "add_to_history"
    /\ last_call.history_write = "ok"
    /\ load_history(history_file) = added

\* C19: run_git_command never raises when the tool exits with a non-zero
\* status: in each of its three modes it returns False; it returns True or
\* the captured text only when the tool exited with status zero.
C19_NonZeroExitReturnsFalse ==
    last_call.op = "run_git_command" /\ last_call.result.kind = "exit" =>
        /\ ~last_call.raised
        /\ last_call.ret.kind # "raise"
        /\ last_call.result.code # 0 =>
              last_call.ret.kind = "bool" /\ ~last_call.ret.value
        /\ last_call.ret.kind = "text" => last_call.result.code = 0
        /\ last_call.ret.kind = "bool" /\ last_call.ret.value =>
              last_call.result.code = 0

\* a capturing call whose git exited with 128 returned False
C19_Witness ==
    /\ last_call.op = "run_git_command"
    /\ last_call.mode = "capture"
    /\ last_call.result.kind = "exit"
    /\ last_call.result.code = 128
    /\ last_call.ret.kind = "bool"
    /\ ~last_call.ret.value

\* C20: if the git binary is missing or `git --version` fails at startup,
\* the process prints an error and exits with a non-zero status, before the
\* main menu or a subcommand handler runs and before any other git command
\* is started.
C20_NoGitStopsStartup ==
    process.git # "ok" /\ pc # "start" =>
        /\ pc = "exited"
        /\ process.exit = "1"
        /\ \A i \in DOMAIN git_calls : git_calls[i] = GitVersion
        /\ last_call.op = "__init__"
        /\ load_raises(config_file) \/ load_raises(history_file)
           \/ \E i \in DOMAIN last_call.printed :
                 last_call.printed[i] =
                     "Git is not installed or not available in PATH"

\* C21: started with a first argument that is none of status, add, commit,
\* sync, push, config, stash, tag, undo, history, the process prints an error
\* that lists the valid subcommands, runs no handler, and exits with a
\* non-zero status.
C21_UnknownCommandExitsNonZero ==
    /\ pc \in {"handler", "menu"} /\ process.argv # <<>> =>
          Lower(process.argv) \in handlers
    /\ last_call.op = "main" /\ process.argv # <<>>
       /\ Lower(process.argv) \notin handlers =>
          /\ pc = "exited"
          /\ \E i \in DOMAIN last_call.printed :
                last_call.printed[i] = "Available commands"
          /\ process.exit # "0"

\* C25: for every max_history >= 0, 0 included, after every save_history the
\* history in memory and the history stored in the file hold at most
\* max_history entries.
C25_HistoryNeverExceedsMaxHistory ==
    last_call.op = "add_to_history" =>
        /\ Len(history) <= config.max_history
        /\ history_file.kind = "json" =>
              Len(history_file.data) <= config.max_history

\* C26: a save replaces the file atomically: whatever happens to a
\* save_config or a save_history, the file afterwards holds the complete old
\* content or the complete new content.
C26_SaveIsAtomic ==
    [][/\ config_file' # config_file => config_file' = Holding(config')
       /\ history_file' # history_file =>
             history_file' = Holding(history')]_vars

\* the git commands among the events of a handler that change something
GitEvents(events) == SelectSeq(events, LAMBDA e : e.kind = "git")

\* C22: no `git checkout -b`, `git branch -m`, `git remote add`,
\* `git remote set-url` or `git clone` is ever issued with a branch name or
\* URL that is empty or fails validate_branch_name / validate_url: such an
\* input is rejected before the command is spawned.
C22_InvalidInputNeverReachesGit ==
    \A i \in DOMAIN git_calls :
        LET c == git_calls[i]
        IN  /\ c.words = <<"git", "checkout", "-b">> =>
                 c.args[1] # <<>> /\ validate_branch_name(c.args[1])
            /\ c.words = <<"git", "branch", "-m">> =>
                 c.args[2] # <<>> /\ validate_branch_name(c.args[2])
            /\ c.words \in { <<"git", "remote", "add">>,
                             <<"git", "remote", "set-url">>,
                             <<"git", "clone">> } =>
                 c.args[1] # <<>> /\ validate_url(c.args[1])

\* a branch name with a blank inside was typed at the rename prompt and the
\* handler returned after the error message, with no command issued
C22_Witness ==
    /\ last_call.op = "interactive_rename_branch"
    /\ last_call.printed = <<"Invalid branch name">>
    /\ git_calls = <<>>

\* the line typed at a confirmation says yes
Affirmative(event) ==
    /\ event.kind = "confirm"
    /\ Lower(Strip(event.typed)) \in { <<"y">>, <<"y", "e", "s">> }

\* the commands that destroy something when one yes is enough
Destructive(words) ==
    \/ words \in { <<"git", "reset", "--soft", "HEAD~1">>,
                   <<"git", "stash", "drop">>,
                   <<"git", "stash", "clear">>,
                   <<"git", "branch", "-d">>,
                   <<"git", "tag", "-d">>,
                   <<"git", "remote", "remove">> }
    \/ words \in { <<"git", "reset", flag>> :
                      flag \in {"--soft", "--mixed", "--hard"} }

\* C23: no destructive git command is issued without a preceding affirmative
\* confirmation in the same flow, an empty answer counting as no:
\* `git reset --hard HEAD~1` comes after two consecutive affirmative answers,
\* and `git reset <flag> <commit>`, `git reset --soft HEAD~1`,
\* `git stash drop`, `git stash clear`, `git branch -d`, `git tag -d` and
\* `git remote remove` each after one.
C23_DestructiveOnlyAfterYes ==
    last_call # NoCall =>
        \A i \in DOMAIN last_call.events :
            LET e == last_call.events
            IN  /\ e[i].kind = "git" /\ Destructive(e[i].git.words) =>
                     \E j \in 1..(i - 1) : Affirmative(e[j])
                /\ e[i].kind = "git"
                   /\ e[i].git.words = <<"git", "reset", "--hard", "HEAD~1">>
                   => /\ i > 2
                      /\ Affirmative(e[i - 1])
                      /\ Affirmative(e[i - 2])

\* "Y" was typed at both confirmations of the hard undo and the reset ran
C23_Witness ==
    /\ last_call.op = "interactive_undo_commit_hard"
    /\ \E i \in DOMAIN last_call.events :
          last_call.events[i].git.words =
              <<"git", "reset", "--hard", "HEAD~1">>

\* the events of the last interactive_sync are in order: fetch, pull and push
\* against one configured remote, each after the success of the one before,
\* and a history entry only after a successful push
SyncInOrder ==
    LET g == GitEvents(last_call.events)
        verbs == <<"fetch", "pull", "push">>
    IN  /\ Len(g) <= 3
        /\ \A i \in DOMAIN g :
              /\ g[i].git.words = <<"git", verbs[i]>>
              /\ g[i].git.remote = g[1].git.remote
              /\ \E k \in DOMAIN git_remotes :
                    git_remotes[k] = g[i].git.remote
              /\ i > 1 => g[i - 1].ok
        /\ last_call.history_write # "none" =>
              /\ Len(g) = 3
              /\ g[3].ok
              /\ added[Len(added)].command = "sync"

\* C28: interactive_sync issues fetch, pull, push in that order against the
\* selected remote, pull only if fetch succeeded, push only if pull
\* succeeded, no command at all when no remotes are configured, and the
\* 'sync' history entry only when the final push succeeded.
C28_SyncOrderNoCommandWithoutRemotes ==
    last_call.op = "interactive_sync" =>
        /\ SyncInOrder
        /\ git_remotes = <<>> => last_call.events = <<>>

\* C28, amended: as above, but without remotes it is fetch, pull and push
\* that are not issued; `git branch --show-current` and `git remote` are
\* run first in every case.
C28_SyncOrderNoFetchWithoutRemotes ==
    last_call.op = "interactive_sync" =>
        /\ SyncInOrder
        /\ git_remotes = <<>> => GitEvents(last_call.events) = <<>>
        /\ Len(last_call.events) >= 2
        /\ last_call.events[1] = ShowCurrent
        /\ last_call.events[2] = GitRemote

\* a sync whose fetch succeeded and whose pull failed: no push, no entry
C28_Witness ==
    /\ last_call.op = "interactive_sync"
    /\ Len(GitEvents(last_call.events)) = 2
    /\ ~GitEvents(last_call.events)[2].ok
    /\ added = <<>>

\* C29: the remote that interactive_fetch, interactive_tag_push,
\* interactive_tag_create and interactive_tag_delete pass to git is what
\* get_choice returned, and that is always one of the remotes listed by
\* get_remotes, also for an empty line at the prompt when the configured
\* default_remote is not among them.
C29_RemotePassedIsConfigured ==
    last_call.op \in {"interactive_fetch", "interactive_tag_push",
                      "interactive_tag_create", "interactive_tag_delete"} =>
        \A i \in DOMAIN last_call.events :
            LET e == last_call.events[i]
            IN  e.kind = "git" /\ e.git.remote # "" =>
                   \E k \in DOMAIN git_remotes : git_remotes[k] = e.git.remote

\* the last handler was `op` and its git command succeeded
Succeeded(op) ==
    /\ last_call'.op = op
    /\ git_calls' # git_calls
    /\ git_remotes' # git_remotes

\* C30: from a repository without remotes, after any sequence of add-remote,
\* remove-remote and set-default-remote operations, default_remote is one of
\* the remotes whenever there is one: adding the first remote makes it the
\* default, removing the default moves it to the first remaining remote (to
\* 'origin' when none remains), removing another leaves the configuration
\* unchanged.
C30_DefaultRemoteIsARemote ==
    [][/\ git_remotes' # <<>> =>
             \E k \in DOMAIN git_remotes' :
                git_remotes'[k] = config'.default_remote
       /\ Succeeded("interactive_add_remote") /\ git_remotes = <<>> =>
             config'.default_remote = git_remotes'[1]
       /\ Succeeded("interactive_remove_remote") =>
             IF \E k \in DOMAIN git_remotes' :
                   git_remotes'[k] = config.default_remote
             THEN config' = config
             ELSE config'.default_remote =
                     IF git_remotes' # <<>> THEN git_remotes'[1]
                     ELSE "origin"]_vars

\* origin and upstream were added, origin, the default, was removed, and the
\* default is now upstream
C30_Witness ==
    /\ last_call.op = "interactive_remove_remote"
    /\ Len(git_calls) = 3
    /\ git_remotes = <<"upstream">>
    /\ config.default_remote = "upstream"

\* a name with one of the features for which a branch name is refused
Refused(name) ==
    \/ name = <<>>
    \/ \E i \in DOMAIN name :
          name[i] \in Whitespace \cup {"~", "^", ":", "?", "*", "[", "\\"}
    \/ name # <<>> /\ name[1] = "-"
    \/ name # <<>> /\ name[Len(name)] = "."
    \/ /\ Len(name) >= 5
       /\ SubSeq(name, Len(name) - 4, Len(name)) = <<".", "l", "o", "c", "k">>
    \/ \E i \in 1..(Len(name) - 1) : name[i] = "." /\ name[i + 1] = "."

\* C24: validate_branch_name returns False for every name that is empty,
\* contains whitespace, contains one of ~ ^ : ? * [ \, starts with '-', ends
\* with '.', ends with '.lock' or contains '..', and True for every other
\* name.
C24_ValidateBranchNameRules ==
    pc = "validated" => last_call.ret = ~Refused(branch)

\* no push is in flight and every requested remote has an outcome
AllPushesOver ==
    /\ seq.pc # "running"
    /\ Running(par) = {}
    /\ IF mode = "parallel" THEN ParProcessed = DOMAIN remotes
       ELSE SeqProcessed = DOMAIN remotes

\* C27: provided every push eventually exits, every dispatch, sequential or
\* parallel, to any number of remotes, eventually finishes and has printed
\* its summary exactly once; the summary is never printed and the history
\* entry never written while a push is in flight or a remote has no outcome.
C27_DispatchFinishesWithOneSummary ==
    /\ [](/\ Len(out) <= 1
          /\ out # <<>> \/ added # <<>> => AllPushesOver)
    /\ (\A i \in DOMAIN results : results[i] # "hang") =>
          <>(Len(out) = 1 /\ pc = "done")
====
